---- MODULE Spec2Model ----
(***************************************************************************)
(* A model of the world generation pipeline of the Terrain map generator:  *)
(* the hydrology passes (flow direction, flow accumulation), settlement    *)
(* placement, the road network builder with its A* search and path         *)
(* simplification, and the orchestrator generateWorld.                     *)
(*                                                                         *)
(* Raster layers are functions over the cell indexes 0..size-1, a cell     *)
(* (x, y) having the index y*width+x as in the source.  Heights are        *)
(* integer levels: the passes modelled here only compare heights and       *)
(* height differences.                                                     *)
(***************************************************************************)
EXTENDS Integers, Sequences, FiniteSets, TLC

VARIABLES
    width, height,      \* settings.map.width, settings.map.height
    heightMap,          \* Float32Array heightMap, as integer levels
    landMask,           \* Uint8Array landMask (1 land, 0 water)
    \* ---- hydrology.ts ----
    fpc,                \* position in the flow passes
    flowDir,            \* Int8Array flowDir (-1: no outflow)
    flowAccum,          \* Float32Array flowAccum
    inDegree,           \* Uint16Array inDegree of calculateFlowAccumulation
    queue,              \* the work queue of calculateFlowAccumulation
    taken,              \* history: the cells taken from the queue, each with its flowAccum then
    \* ---- cities.ts: placeCities ----
    settings,           \* the Settings record (the fields the model reads)
    biome,              \* Uint8Array biome
    rivers,             \* Uint8Array rivers
    cpc,                \* position in placeCities
    scores,             \* Float32Array scores, in quarters
    scored,             \* history: scores as the scoring loop left them
    placed,             \* Set<number> placed
    cities,             \* City[] cities
    cityI,              \* i, the placement iteration
    sampleS,            \* s, the sample counter of the iteration
    bestIdx, bestScore, \* best candidate of the iteration
    \* ---- cities.ts: generateRoads ----
    forest,             \* Uint8Array forest
    rpc,                \* position in generateRoads
    pairs,              \* the city pairs, sorted by distance
    pairK,              \* the number of pairs the connection loop has taken
    roads,              \* Road[] roads
    connections,        \* Map<number, number> connections (absent: no entry)
    attempts,           \* history: what the loop did with each pair taken
    \* ---- index.ts: generateWorld ----
    wpc,                \* position in generateWorld
    onProgress,         \* whether the caller passed a progress callback
    prng,               \* const prng, the top-level generator
    progress,           \* history: the calls of onProgress, in order
    layers,             \* the values the call has computed so far
    calls,              \* history: the finished calls, settings and outcome
    \* ---- biomes.ts: classifyBiomes ----
    bpc,                \* position in classifyBiomes
    temperature,        \* Float32Array temperature, in fortieths
    moisture,           \* Float32Array moisture, in fortieths
    lakeMask,           \* Uint8Array lakeMask
    bidx,               \* idx, the cell of the classification loop
    bwrites,            \* history: the number of assignments to biome[idx]
    \* ---- hydrology.ts: calculateWaterDistance ----
    dpc,                \* position in calculateWaterDistance
    distance,           \* Float32Array distance
    dqueue,             \* the queue of the breadth-first search
    \* ---- hydrology.ts: detectLakes ----
    lpc,                \* position in detectLakes
    lidx,               \* idx, the cell of the loop over the sinks
    fill,               \* queue, visited, lakeHeight, lakeSize of the flood fill in progress
    \* ---- continents.ts: generateContinentMask ----
    mpc,                \* position in generateContinentMask
    seeds,              \* ContinentSeed[] seeds
    continentInfluence, \* Float32Array continentInfluence, as quotients
    continentId,        \* Uint16Array continentId
    midx,               \* idx, the cell of the archipelago loops
    landBefore,         \* history: landMask when the archipelago pass started
    \* ---- class PRNG ----
    generators,         \* the state field of every PRNG object, in order of construction
    parentOf,           \* history: the object whose fork() made each object (0: new PRNG)
    lastOp,             \* history: the last method call and the states before it
    \* ---- cities.ts: simplifyPath ----
    spc,                \* position in the call of simplifyPath
    spath,              \* the argument path
    simplified,         \* the path returned
    \* ---- cities.ts: findPath, the A* loop by iterations ----
    apc,                \* position in findPath
    aFrom, aTo,         \* the endpoints from and to
    aOpenSet,           \* Map openSet, its nodes in insertion order
    aClosedSet,         \* Set<number> closedSet
    aIterations,        \* let iterations
    aResult,            \* what findPath returned: "path", "null", "" before it returns
    aClosings,          \* history: the cells closed, in order
    \* ---- generation.worker.ts: self.onmessage ----
    inbox,              \* the requests posted to the worker and not yet handled
    requested,          \* history: the number of requests posted to the worker
    handling,           \* the request the handler is running for, <<>> between handlers
    handled,            \* history: the requests whose handler has finished
    posted,             \* history: the responses of self.postMessage, each with its request
    \* ---- useMapGenerator.ts: useMapGenerator ----
    mounted,            \* !isFirstRender.current: the first-render effect has run
    hookSettings,       \* const [settings, setSettings]
    closure,            \* the settings of the last render, which regenerate and randomizeSeed read
    hookState,          \* const [state, setState]: world, isGenerating, progress, error
    debounce,           \* the pending timer of debounceRef: <<the settings it holds>>, <<>> for none
    frames,             \* the pending requestAnimationFrame callbacks: the settings of each
    hookCalls,          \* history: the number of calls made on the hook
    everManual,         \* history: some settings value had autoRegenerate off
    runs                \* history: the callbacks run, each with the state around it

gridVars == <<width, height, heightMap, landMask>>
flowVars == <<fpc, flowDir, flowAccum, inDegree, queue, taken>>
cityInputs == <<settings, biome, rivers>>
cityVars == <<cpc, scores, scored, placed, cities, cityI, sampleS, bestIdx, bestScore>>
roadVars == <<forest, rpc, pairs, pairK, roads, connections, attempts>>
worldVars == <<wpc, onProgress, prng, progress, layers, calls>>
biomeVars == <<bpc, temperature, moisture, lakeMask, bidx, bwrites>>
waterVars == <<dpc, distance, dqueue>>
lakeVars == <<lpc, lidx, fill>>
maskVars == <<mpc, seeds, continentInfluence, continentId, midx, landBefore>>
rngVars == <<generators, parentOf, lastOp>>
simplifyVars == <<spc, spath, simplified>>
astarVars == <<apc, aFrom, aTo, aOpenSet, aClosedSet, aIterations, aResult, aClosings>>
workerVars == <<inbox, requested, handling, handled, posted>>
hookVars == <<mounted, hookSettings, closure, hookState, debounce, frames, hookCalls,
              everManual, runs>>
auxVars == <<simplifyVars, astarVars, workerVars, hookVars>>
stageVars == <<biomeVars, waterVars, lakeVars, maskVars, rngVars, auxVars>>
vars == <<gridVars, flowVars, cityInputs, cityVars, roadVars, worldVars, stageVars>>

\* ------------------------------------------------------------------ bounds
MaxLevel == 2           \* height levels 0..MaxLevel of the input terrains
FlowWidth == 3          \* grid of the hydrology inputs
FlowHeight == 2
CityWidth == 3          \* grid of the settlement inputs
CityHeight == 3
MaxCount == 3           \* settings.cities.count is 0 or MaxCount
MaxSpacing == 2         \* settings.cities.minSpacing is drawn from 1..MaxSpacing
RoadWidth == 3          \* grid of the road inputs
RoadHeight == 3
MaxCities == 3          \* the road inputs hold up to MaxCities cities
MaxConnections == 2     \* settings.roads.maxConnectionsPerCity is drawn from 1..MaxConnections
maxIterations == 3      \* the A* budget (10000 in findPath), scaled to the grid
MaxJitter == 1          \* the jitter draws of the scoring are 0..MaxJitter quarters
BiomeWidth == 2         \* grid of the classifier inputs: BiomeWidth x 1
WaterWidth == 3         \* grid of the water distance inputs
WaterHeight == 2
LakeWidth == 3          \* grid of the lake detection inputs
LakeHeight == 3
checkRadius == 1        \* the search radius of the archipelago pass (20), scaled to the grid
MaskWidth == 4          \* grid of the continent mask inputs
MaskHeight == 2
MaxCalls == 2           \* generateWorld is called up to MaxCalls times
MapSide == 2            \* the well-formed settings.map.width and height
SeedStrings == {<<49>>, <<49, 50>>}     \* settings.map.seed: "1" and "12"

\* -------------------------------------------------------------------- grid
Cells(w, h) == 0 .. (w * h - 1)
XOf(idx, w) == idx % w
YOf(idx, w) == idx \div w
InBounds(x, y, w, h) == x >= 0 /\ x < w /\ y >= 0 /\ y < h
Abs(n) == IF n < 0 THEN -n ELSE n
Max(a, b) == IF a > b THEN a ELSE b
Min(a, b) == IF a < b THEN a ELSE b

RECURSIVE SumOver(_, _)
SumOver(S, f) ==
    IF S = {} THEN 0
    ELSE LET e == CHOOSE e \in S : TRUE IN f[e] + SumOver(S \ {e}, f)

\* ------------------------------------------------------------ hydrology.ts
\* Direction vectors for 8-way movement, indexed by d+1 for d in 0..7.
DX == <<0, 1, 1, 1, 0, -1, -1, -1>>
DY == <<-1, -1, 0, 1, 1, 1, 0, -1>>

\* A slope (currentHeight - neighborHeight) / dist is kept as the pair
\* <<drop, diag>>: dist is 1 for even d and Math.SQRT2 for odd d.
\* SlopeGreater(a, b) is a > b for b >= 0, compared on the squares.
SlopeGreater(a, b) ==
    /\ a[1] > 0
    /\ \/ b[1] <= 0
       \/ a[1] * a[1] * (IF b[2] THEN 2 ELSE 1) > b[1] * b[1] * (IF a[2] THEN 2 ELSE 1)

\* if (slope > steepestSlope)
SteeperMutGE(slope, steepest) == slope[1] >= 0 /\ ~SlopeGreater(steepest, slope)
Steeper(slope, steepest) == SlopeGreater(slope, steepest)

\* The loop over d of calculateFlowDirection for the cell idx, from direction
\* d on, with the steepest direction and slope found so far.
RECURSIVE SteepestScan(_, _, _, _, _, _, _)
SteepestScan(hm, idx, w, h, d, steepestDir, steepestSlope) ==
    IF d > 7 THEN steepestDir
    ELSE LET nx == XOf(idx, w) + DX[d + 1]
             ny == YOf(idx, w) + DY[d + 1]
         IN  IF ~InBounds(nx, ny, w, h)
             THEN SteepestScan(hm, idx, w, h, d + 1, steepestDir, steepestSlope)
             ELSE LET slope == <<hm[idx] - hm[ny * w + nx], d % 2 # 0>>
                  IN  IF Steeper(slope, steepestSlope)
                      THEN SteepestScan(hm, idx, w, h, d + 1, d, slope)
                      ELSE SteepestScan(hm, idx, w, h, d + 1, steepestDir, steepestSlope)

calculateFlowDirection(hm, lm, w, h) ==
    [idx \in Cells(w, h) |->
        IF lm[idx] = 0 THEN -1
        ELSE SteepestScan(hm, idx, w, h, 0, -1, <<0, FALSE>>)]

\* The cell that idx drains to: ny * width + nx for dir = flowDir[idx] >= 0,
\* or -1 when it is out of the map.
FlowTarget(fd, idx, w, h) ==
    LET nx == XOf(idx, w) + DX[fd[idx] + 1]
        ny == YOf(idx, w) + DY[fd[idx] + 1]
    IN  IF InBounds(nx, ny, w, h) THEN ny * w + nx ELSE -1

\* Build dependency graph: inDegree[n] counts the land cells draining to n.
BuildInDegreeMutNone(fd, lm, w, h) == [n \in Cells(w, h) |-> 0]
BuildInDegree(fd, lm, w, h) ==
    [n \in Cells(w, h) |->
        Cardinality({i \in Cells(w, h) :
            lm[i] # 0 /\ fd[i] >= 0 /\ FlowTarget(fd, i, w, h) = n})]

\* Find all source cells (no incoming flow), in index order.
RECURSIVE SourceCells(_, _, _, _)
SourceCells(indeg, lm, i, size) ==
    IF i >= size THEN <<>>
    ELSE (IF lm[i] = 1 /\ indeg[i] = 0 THEN <<i>> ELSE <<>>)
         \o SourceCells(indeg, lm, i + 1, size)

\* if (inDegree[nidx] === 0 && landMask[nidx] === 1) queue.push(nidx)
DrainedMutEager(indeg, lm, nidx) == lm[nidx] = 1
Drained(indeg, lm, nidx) == indeg[nidx] = 0 /\ lm[nidx] = 1

FlowInputs ==
    /\ width = FlowWidth
    /\ height = FlowHeight
    /\ heightMap \in [Cells(FlowWidth, FlowHeight) -> 0 .. MaxLevel]
    /\ landMask \in [Cells(FlowWidth, FlowHeight) -> {0, 1}]

FlowStart ==
    /\ fpc = "flowDirection"
    /\ flowDir = <<>>
    /\ flowAccum = <<>>
    /\ inDegree = <<>>
    /\ queue = <<>>
    /\ taken = <<>>

\* The variables of the other passes while the flow passes are examined.
CitiesIdle ==
    /\ settings = <<>>
    /\ biome = <<>>
    /\ rivers = <<>>
    /\ cpc = "idle"
    /\ scores = <<>>
    /\ scored = <<>>
    /\ placed = {}
    /\ cities = <<>>
    /\ cityI = 0
    /\ sampleS = 0
    /\ bestIdx = -1
    /\ bestScore = 0

RoadsIdle ==
    /\ forest = <<>>
    /\ rpc = "idle"
    /\ pairs = <<>>
    /\ pairK = 0
    /\ roads = <<>>
    /\ connections = <<>>
    /\ attempts = <<>>

FlowIdle ==
    /\ fpc = "idle"
    /\ flowDir = <<>>
    /\ flowAccum = <<>>
    /\ inDegree = <<>>
    /\ queue = <<>>
    /\ taken = <<>>

\* classifyBiomes is not examined.
BiomesIdle ==
    /\ bpc = "idle"
    /\ temperature = <<>>
    /\ moisture = <<>>
    /\ lakeMask = <<>>
    /\ bidx = 0
    /\ bwrites = <<>>

\* calculateWaterDistance is not examined.
WaterIdle ==
    /\ dpc = "idle"
    /\ distance = <<>>
    /\ dqueue = <<>>

\* The locals of placeCities and of classifyBiomes before a call.
CitiesLocalIdle ==
    /\ cpc = "idle"
    /\ scores = <<>>
    /\ scored = <<>>
    /\ placed = {}
    /\ cities = <<>>
    /\ cityI = 0
    /\ sampleS = 0
    /\ bestIdx = -1
    /\ bestScore = 0

BiomesLocalIdle ==
    /\ bpc = "idle"
    /\ temperature = <<>>
    /\ moisture = <<>>
    /\ bidx = 0
    /\ bwrites = <<>>

\* detectLakes is not examined.
LakesIdle ==
    /\ lpc = "idle"
    /\ lidx = 0
    /\ fill = <<>>

\* generateContinentMask is not examined.
MaskIdle ==
    /\ mpc = "idle"
    /\ seeds = <<>>
    /\ continentInfluence = <<>>
    /\ continentId = <<>>
    /\ midx = 0
    /\ landBefore = <<>>

\* No PRNG object is examined.
RngIdle ==
    /\ generators = <<>>
    /\ parentOf = <<>>
    /\ lastOp = <<>>

\* simplifyPath is not examined on its own.
SimplifyIdle ==
    /\ spc = "idle"
    /\ spath = <<>>
    /\ simplified = <<>>

AStarIdle ==
    /\ apc = "idle"
    /\ aFrom = <<>>
    /\ aTo = <<>>
    /\ aOpenSet = <<>>
    /\ aClosedSet = {}
    /\ aIterations = 0
    /\ aResult = ""
    /\ aClosings = <<>>

WorkerIdle ==
    /\ inbox = <<>>
    /\ requested = 0
    /\ handling = <<>>
    /\ handled = <<>>
    /\ posted = <<>>

HookIdle ==
    /\ mounted = FALSE
    /\ hookSettings = <<>>
    /\ closure = <<>>
    /\ hookState = <<>>
    /\ debounce = <<>>
    /\ frames = <<>>
    /\ hookCalls = 0
    /\ everManual = FALSE
    /\ runs = <<>>

AuxIdle == SimplifyIdle /\ AStarIdle /\ WorkerIdle /\ HookIdle

StagesIdle == BiomesIdle /\ WaterIdle /\ LakesIdle /\ MaskIdle /\ RngIdle /\ AuxIdle

\* No generateWorld call is in progress.
WorldIdle ==
    /\ wpc = "idle"
    /\ onProgress = FALSE
    /\ prng = <<>>
    /\ progress = <<>>
    /\ layers = <<>>
    /\ calls = <<>>

InitFlow == FlowInputs /\ FlowStart /\ CitiesIdle /\ RoadsIdle /\ WorldIdle /\ StagesIdle

\* const flowDir = calculateFlowDirection(heightMap, landMask, width, height)
CalculateFlowDirection ==
    /\ fpc = "flowDirection"
    /\ flowDir' = calculateFlowDirection(heightMap, landMask, width, height)
    /\ fpc' = "accumInit"
    /\ UNCHANGED <<gridVars, flowAccum, inDegree, queue, taken, cityInputs, cityVars, roadVars,
                   worldVars, stageVars>>

\* calculateFlowAccumulation up to its main loop
FlowAccumInit ==
    /\ fpc = "accumInit"
    /\ flowAccum' = [i \in Cells(width, height) |-> 1]
    /\ inDegree' = BuildInDegree(flowDir, landMask, width, height)
    /\ queue' = SourceCells(inDegree', landMask, 0, width * height)
    /\ taken' = <<>>
    /\ fpc' = "accumLoop"
    /\ UNCHANGED <<gridVars, flowDir, cityInputs, cityVars, roadVars, worldVars, stageVars>>

\* One iteration of while (queue.length > 0)
FlowAccumStep ==
    /\ fpc = "accumLoop"
    /\ queue # <<>>
    /\ taken' = Append(taken, [idx |-> Head(queue), accum |-> flowAccum[Head(queue)]])
    /\ LET idx == Head(queue)
           nidx == IF flowDir[idx] < 0 THEN -1
                   ELSE FlowTarget(flowDir, idx, width, height)
       IN  IF nidx < 0
           THEN /\ queue' = Tail(queue)
                /\ UNCHANGED <<flowAccum, inDegree>>
           ELSE /\ flowAccum' = [flowAccum EXCEPT ![nidx] = @ + flowAccum[idx]]
                /\ inDegree' = [inDegree EXCEPT ![nidx] = @ - 1]
                /\ queue' = IF Drained(inDegree', landMask, nidx)
                            THEN Append(Tail(queue), nidx)
                            ELSE Tail(queue)
    /\ UNCHANGED <<gridVars, fpc, flowDir, cityInputs, cityVars, roadVars, worldVars, stageVars>>

\* return flowAccum
FlowAccumReturn ==
    /\ fpc = "accumLoop"
    /\ queue = <<>>
    /\ fpc' = "done"
    /\ UNCHANGED <<gridVars, flowDir, flowAccum, inDegree, queue, taken, cityInputs, cityVars,
                   roadVars, worldVars, stageVars>>

NextFlow ==
    \/ CalculateFlowDirection
    \/ FlowAccumInit
    \/ FlowAccumStep
    \/ FlowAccumReturn

SpecFlow == InitFlow /\ [][NextFlow]_vars

\* The land cells whose flow direction points into the cell c.
Upstream(c) ==
    {u \in Cells(width, height) :
        landMask[u] = 1 /\ flowDir[u] >= 0 /\ FlowTarget(flowDir, u, width, height) = c}

\* C6: after calculateFlowDirection and calculateFlowAccumulation every land
\* cell has flowAccum >= 1 and every cell's flowAccum is 1 plus the sum of
\* the flowAccum of the land cells whose flow direction points into it.
FlowConservation ==
    fpc = "done" =>
        /\ \A c \in Cells(width, height) : landMask[c] = 1 => flowAccum[c] >= 1
        /\ \A c \in Cells(width, height) :
               flowAccum[c] = 1 + SumOver(Upstream(c), flowAccum)

\* A finished pass in which a land cell receives two tributaries and a water
\* cell receives flow from land.
FlowConservationWitness ==
    /\ fpc = "done"
    /\ \E c \in Cells(width, height) : landMask[c] = 1 /\ Cardinality(Upstream(c)) >= 2
    /\ \E c \in Cells(width, height) : landMask[c] = 0 /\ Upstream(c) # {}
    /\ \E c \in Cells(width, height) : flowAccum[c] >= 4

\* Twice the square of the slope towards the in-bounds neighbour in direction
\* d of the cell c when that neighbour is strictly lower, and 0 otherwise.
DescentSq(c, d) ==
    LET n == (YOf(c, width) + DY[d + 1]) * width + XOf(c, width) + DX[d + 1]
        drop == heightMap[c] - heightMap[n]
    IN  IF drop <= 0 THEN 0 ELSE drop * drop * (IF d % 2 = 0 THEN 2 ELSE 1)

\* The directions from the cell c that stay on the map.
DirsInBounds(c) ==
    {d \in 0 .. 7 : InBounds(XOf(c, width) + DX[d + 1], YOf(c, width) + DY[d + 1],
                             width, height)}

\* The cell reached from c by following the flow directions for n steps, or
\* -1 when the flow ends or leaves the map before that.
RECURSIVE Downstream(_, _)
Downstream(c, n) ==
    IF n = 0 THEN c
    ELSE IF flowDir[c] < 0 THEN -1
    ELSE IF FlowTarget(flowDir, c, width, height) < 0 THEN -1
    ELSE Downstream(FlowTarget(flowDir, c, width, height), n - 1)

\* C23: calculateFlowDirection gives every water cell -1; a land cell -1
\* exactly when no in-bounds neighbour is strictly lower; otherwise the
\* direction of the in-bounds neighbour of greatest slope, the lowest
\* direction winning ties.  Every flow step goes to a strictly lower cell and
\* following the flow never comes back to a cell.
SteepestDescent ==
    fpc # "flowDirection" =>
        \A c \in Cells(width, height) :
            /\ landMask[c] = 0 => flowDir[c] = -1
            /\ landMask[c] = 1 =>
                   /\ flowDir[c] = -1 <=> \A d \in DirsInBounds(c) : DescentSq(c, d) = 0
                   /\ flowDir[c] # -1 =>
                          /\ flowDir[c] \in DirsInBounds(c)
                          /\ \A d \in DirsInBounds(c) :
                                 /\ DescentSq(c, d) <= DescentSq(c, flowDir[c])
                                 /\ d < flowDir[c] => DescentSq(c, d) < DescentSq(c, flowDir[c])
                          /\ heightMap[FlowTarget(flowDir, c, width, height)] < heightMap[c]
            /\ \A n \in 1 .. width * height : Downstream(c, n) # c

\* Flow directions have been computed for a map with a water cell, a land
\* cell without outflow, a land cell with two neighbours of equal greatest
\* slope, and a land cell where an orthogonal neighbour wins over a diagonal
\* neighbour of the same drop and lower direction.
SteepestDescentWitness ==
    /\ fpc # "flowDirection"
    /\ \E c \in Cells(width, height) : landMask[c] = 0
    /\ \E c \in Cells(width, height) : landMask[c] = 1 /\ flowDir[c] = -1
    /\ \E c \in Cells(width, height) :
           /\ flowDir[c] >= 0
           /\ \E d \in DirsInBounds(c) :
                  d > flowDir[c] /\ DescentSq(c, d) = DescentSq(c, flowDir[c])
    /\ \E c \in Cells(width, height) :
           /\ flowDir[c] >= 0
           /\ flowDir[c] % 2 = 0
           /\ \E d \in DirsInBounds(c) :
                  d < flowDir[c] /\ d % 2 = 1 /\ 2 * DescentSq(c, d) = DescentSq(c, flowDir[c])

\* C22: a land cell is taken from the queue only after every land cell whose
\* flow direction points into it has been taken; its flowAccum stays what it
\* was when it was taken; no cell is taken twice, and when the pass ends the
\* cells taken are the land cells.
TopologicalOrder ==
    fpc \in {"accumLoop", "done"} =>
        /\ \A k \in 1 .. Len(taken) :
               /\ landMask[taken[k].idx] = 1
               /\ \A u \in Upstream(taken[k].idx) : \E j \in 1 .. k - 1 : taken[j].idx = u
               /\ flowAccum[taken[k].idx] = taken[k].accum
               /\ \A j \in 1 .. k - 1 : taken[j].idx # taken[k].idx
        /\ fpc = "done" =>
               {taken[k].idx : k \in 1 .. Len(taken)}
                   = {c \in Cells(width, height) : landMask[c] = 1}

\* A finished pass that took a cell with two tributaries, one of which has a
\* tributary of its own, on a map with a water cell.
TopologicalOrderWitness ==
    /\ fpc = "done"
    /\ \E c \in Cells(width, height) :
           /\ landMask[c] = 1
           /\ Cardinality(Upstream(c)) >= 2
           /\ \E u \in Upstream(c) : Upstream(u) # {}
    /\ \E c \in Cells(width, height) : landMask[c] = 0

\* --------------------------------------------------- cities.ts: placeCities
\* Scores and preferences are kept in quarters (4 is the source's 1.0) and
\* heights in levels of 0.1, so that slope * 10 is a difference of levels.
Biome ==
    [Ocean |-> 0, Beach |-> 1, Lake |-> 2, Snow |-> 3, Tundra |-> 4, Taiga |-> 5,
     Grassland |-> 6, TemperateForest |-> 7, Rainforest |-> 8, Desert |-> 9,
     Savanna |-> 10, MountainRock |-> 11]

\* Biomes suitable for cities
CITY_BIOMESMutDesert ==
    {Biome.Beach, Biome.Grassland, Biome.TemperateForest, Biome.Savanna, Biome.Taiga,
     Biome.Desert}
CITY_BIOMES ==
    {Biome.Beach, Biome.Grassland, Biome.TemperateForest, Biome.Savanna, Biome.Taiga}

\* calculateSlope, times 10: 1 on the outermost rows and columns, else the
\* largest height difference to one of the 8 neighbours.
calculateSlope10(hm, x, y, w, h) ==
    IF x <= 0 \/ x >= w - 1 \/ y <= 0 \/ y >= h - 1 THEN 10
    ELSE LET diffs == {Abs(hm[(y + dy) * w + (x + dx)] - hm[y * w + x]) :
                          dx \in -1 .. 1, dy \in -1 .. 1}
         IN  CHOOSE m \in diffs : \A d \in diffs : d <= m

\* isNearCoast(landMask, x, y, width, height, radius)
isNearCoast(lm, x, y, w, h, radius) ==
    \E dy \in -radius .. radius, dx \in -radius .. radius :
        /\ InBounds(x + dx, y + dy, w, h)
        /\ lm[(y + dy) * w + (x + dx)] = 0

\* nearRiver: a river cell within 3 cells in x and in y
nearRiver(rv, x, y, w, h) ==
    \E dy \in -3 .. 3, dx \in -3 .. 3 :
        /\ InBounds(x + dx, y + dy, w, h)
        /\ rv[(y + dy) * w + (x + dx)] > 0

\* The suitability score of the cell idx, in quarters; jitter is the draw
\* prng.next() * 0.5 of the cell.
CellScore(idx, jitter) ==
    LET x == XOf(idx, width)
        y == YOf(idx, width)
        c == settings.cities
    IN  IF landMask[idx] = 0 THEN 0
        ELSE IF biome[idx] \notin CITY_BIOMES THEN 0
        ELSE Max(0,
                 4
                 + (1 - calculateSlope10(heightMap, x, y, width, height)) * c.flatPreference
                 + (IF isNearCoast(landMask, x, y, width, height, 5)
                    THEN c.coastPreference ELSE 0)
                 + (IF rivers[idx] > 0 THEN c.riverPreference
                    ELSE IF nearRiver(rivers, x, y, width, height)
                         THEN c.riverPreference \div 2 ELSE 0)
                 + jitter)

\* const { count, minSpacing, ... } = settings.cities
minSpacingMutOffByOne == settings.cities.minSpacing - 1
minSpacing == settings.cities.minSpacing

\* Check spacing from existing cities: dist < minSpacing for a placed city.
TooClose(idx, pl, w, ms) ==
    \E cityIdx \in pl :
        (XOf(idx, w) - XOf(cityIdx, w)) * (XOf(idx, w) - XOf(cityIdx, w))
        + (YOf(idx, w) - YOf(cityIdx, w)) * (YOf(idx, w) - YOf(cityIdx, w)) < ms * ms

\* Suppress nearby scores: every cell closer than minSpacing to idx gets 0.
Suppress(sc, idx, w, h, ms) ==
    [n \in Cells(w, h) |->
        IF /\ Abs(XOf(n, w) - XOf(idx, w)) <= ms
           /\ Abs(YOf(n, w) - YOf(idx, w)) <= ms
           /\ (XOf(n, w) - XOf(idx, w)) * (XOf(n, w) - XOf(idx, w))
              + (YOf(n, w) - YOf(idx, w)) * (YOf(n, w) - YOf(idx, w)) < ms * ms
        THEN 0 ELSE sc[n]]

\* Determine city type; port is the outcome of prng.chance.
CityTypeMutNoCapital(iter, isCoastal, hasRiver, score, port) ==
    IF isCoastal THEN (IF port THEN "port" ELSE "city")
    ELSE IF score > 12 THEN "city"
    ELSE "town"
CityType(iter, isCoastal, hasRiver, score, port) ==
    IF iter = 0 THEN "capital"
    ELSE IF isCoastal /\ hasRiver THEN (IF port THEN "port" ELSE "city")
    ELSE IF isCoastal THEN (IF port THEN "port" ELSE "city")
    ELSE IF score > 12 THEN "city"
    ELSE "town"

\* The draws prng.next() * 0.5 of the scoring loop, one per cell: those in
\* which at most one cell draws more than 0.
JitterDraws(w, h) ==
    {[c \in Cells(w, h) |-> IF c = j THEN v ELSE 0] : j \in Cells(w, h), v \in 0 .. MaxJitter}

\* const sampleCount = Math.min(1000, size)
sampleCount == Min(1000, width * height)

\* Input terrains: an ocean west of column a, desert north of row b and
\* grassland south of it, a river along row r, the interior raised to level k.
CityTerrain(a, b, r, k) ==
    /\ width = CityWidth
    /\ height = CityHeight
    /\ landMask = [c \in Cells(CityWidth, CityHeight) |->
                      IF XOf(c, CityWidth) < a THEN 0 ELSE 1]
    /\ biome = [c \in Cells(CityWidth, CityHeight) |->
                   IF XOf(c, CityWidth) < a THEN Biome.Ocean
                   ELSE IF YOf(c, CityWidth) < b THEN Biome.Desert
                   ELSE Biome.Grassland]
    /\ rivers = [c \in Cells(CityWidth, CityHeight) |->
                    IF XOf(c, CityWidth) >= a /\ YOf(c, CityWidth) = r THEN 1 ELSE 0]
    /\ heightMap = [c \in Cells(CityWidth, CityHeight) |->
                       IF calculateSlope10([d \in Cells(CityWidth, CityHeight) |-> 0],
                              XOf(c, CityWidth), YOf(c, CityWidth), CityWidth, CityHeight) = 10
                       THEN 0 ELSE k]

CitySettings ==
    [cities : [enabled : BOOLEAN, count : {0, MaxCount}, minSpacing : 1 .. MaxSpacing,
               coastPreference : {6}, riverPreference : {8}, flatPreference : {0, 4}]]

CityInputs ==
    /\ \E a \in 0 .. CityWidth, b \in 0 .. CityHeight, r \in -1 .. CityHeight - 1,
          k \in {0, MaxLevel} : CityTerrain(a, b, r, k)
    /\ settings \in CitySettings

CitiesStart ==
    /\ cpc = "start"
    /\ scores = <<>>
    /\ scored = <<>>
    /\ placed = {}
    /\ cities = <<>>
    /\ cityI = 0
    /\ sampleS = 0
    /\ bestIdx = -1
    /\ bestScore = 0

InitCities == CityInputs /\ CitiesStart /\ FlowIdle /\ RoadsIdle /\ WorldIdle /\ StagesIdle

\* for (let i = 0; i < count; i++)
MoreCitiesMutInclusive(i, count) == i <= count
MoreCities(i, count) == i < count

\* placeCities up to its placement loop: the disabled case and the scoring.
ScoreCells ==
    /\ cpc = "start"
    /\ IF ~settings.cities.enabled
       THEN /\ cpc' = "done"
            /\ UNCHANGED <<scores, scored>>
       ELSE /\ \E jitter \in JitterDraws(width, height) :
                  scores' = [idx \in Cells(width, height) |-> CellScore(idx, jitter[idx])]
            /\ scored' = scores'
            /\ cpc' = IF MoreCities(0, settings.cities.count) THEN "sample" ELSE "done"
    /\ UNCHANGED <<gridVars, flowVars, cityInputs, roadVars, placed, cities, cityI, sampleS,
                   bestIdx, bestScore, worldVars, stageVars>>

\* One iteration of the loop over s: a random candidate idx.
SampleCandidate ==
    /\ cpc = "sample"
    /\ sampleS < sampleCount
    /\ \E idx \in Cells(width, height) :
          IF scores[idx] <= bestScore
          THEN UNCHANGED <<bestIdx, bestScore>>
          ELSE IF TooClose(idx, placed, width, minSpacing)
               THEN UNCHANGED <<bestIdx, bestScore>>
               ELSE bestIdx' = idx /\ bestScore' = scores[idx]
    /\ sampleS' = sampleS + 1
    /\ UNCHANGED <<gridVars, flowVars, cityInputs, roadVars, cpc, scores, scored, placed, cities,
                   cityI, worldVars, stageVars>>

\* The end of the iteration i of the placement loop, for the next iteration.
NextIteration ==
    /\ cityI' = cityI + 1
    /\ sampleS' = 0
    /\ bestIdx' = -1
    /\ bestScore' = 0
    /\ cpc' = IF MoreCities(cityI + 1, settings.cities.count) THEN "sample" ELSE "done"

\* if (bestIdx >= 0): the city of iteration i is placed.
PlaceCity ==
    /\ cpc = "sample"
    /\ sampleS = sampleCount
    /\ bestIdx >= 0
    /\ LET x == XOf(bestIdx, width)
           y == YOf(bestIdx, width)
       IN  /\ \E port \in BOOLEAN :
                 cities' = Append(cities,
                     [id |-> cityI, x |-> x, y |-> y,
                      type |-> CityType(cityI,
                                  isNearCoast(landMask, x, y, width, height, 5),
                                  rivers[bestIdx] > 0, bestScore, port)])
           /\ placed' = placed \cup {bestIdx}
           /\ scores' = Suppress(scores, bestIdx, width, height, minSpacing)
    /\ NextIteration
    /\ UNCHANGED <<gridVars, flowVars, cityInputs, roadVars, scored, worldVars, stageVars>>

\* bestIdx < 0: the iteration i places nothing.
SkipIteration ==
    /\ cpc = "sample"
    /\ sampleS = sampleCount
    /\ bestIdx < 0
    /\ NextIteration
    /\ UNCHANGED <<gridVars, flowVars, cityInputs, roadVars, scores, scored, placed, cities,
                   worldVars, stageVars>>

NextCities ==
    \/ ScoreCells
    \/ SampleCandidate
    \/ PlaceCity
    \/ SkipIteration

SpecCities == InitCities /\ [][NextCities]_vars


\* The cities of type capital.
Capitals == {n \in 1 .. Len(cities) : cities[n].type = "capital"}

\* C4 as claimed: whenever placeCities returns a non-empty list, exactly one
\* city is the capital and it is cities[0], also when an earlier placement
\* iteration found no valid candidate.
ExactlyOneCapital ==
    (cpc = "done" /\ cities # <<>>) => Capitals = {1}

\* C7: any two distinct placed cities are at Euclidean distance >= minSpacing
\* of each other, after every placement iteration.
SpacingInvariant ==
    cpc \in {"sample", "done"} =>
        \A m, n \in 1 .. Len(cities) :
            m # n =>
                (cities[m].x - cities[n].x) * (cities[m].x - cities[n].x)
                + (cities[m].y - cities[n].y) * (cities[m].y - cities[n].y)
                    >= settings.cities.minSpacing * settings.cities.minSpacing

\* Three cities placed with minSpacing 2 on a terrain that has room for more
\* cells at a smaller distance.
SpacingInvariantWitness ==
    /\ cpc = "done"
    /\ Len(cities) = 3
    /\ settings.cities.minSpacing = 2
    /\ \E c \in Cells(width, height) : landMask[c] = 1 /\ biome[c] \in CITY_BIOMES /\ c \notin placed

\* C11: bounded settlement output.  placeCities never holds more than
\* settings.cities.count cities, the ids of its cities are pairwise distinct,
\* it returns the empty list when cities.enabled is false or count is 0, and
\* it returns normally: until it has returned a step is possible, within the
\* bounds of its two loops.
BoundedSettlement ==
    /\ Len(cities) <= settings.cities.count
    /\ \A m, n \in 1 .. Len(cities) : m # n => cities[m].id # cities[n].id
    /\ (cpc = "done" /\ (~settings.cities.enabled \/ settings.cities.count = 0))
           => cities = <<>>
    /\ cpc # "done" => ENABLED NextCities
    /\ cpc = "sample" => (cityI < settings.cities.count /\ sampleS <= sampleCount)

\* placeCities has run every iteration on a terrain without a suitable cell
\* and has returned the empty list.
BoundedSettlementWitness ==
    /\ cpc = "done"
    /\ settings.cities.enabled
    /\ settings.cities.count = MaxCount
    /\ cityI = MaxCount
    /\ \A idx \in Cells(width, height) : scores[idx] = 0
    /\ placed = {}
    /\ cities = <<>>

\* C19 as claimed: once an iteration of the placement loop has found no valid
\* candidate no later iteration places a city, so that the ids are
\* consecutive from 0 in placement order: cities[k].id = k.
PlacementStopsEarly ==
    \A k \in 1 .. Len(cities) : cities[k].id = k - 1

\* C25: every city sits on a land cell of biome Beach, Grassland,
\* TemperateForest, Savanna or Taiga; the scoring gives water cells and
\* cells of other biomes the score 0; the candidate an iteration holds has a
\* score above 0, so that no cell of score 0 (water, other biome, closer than
\* minSpacing to a placed city) is selected; and no score is above what the
\* scoring left.
SettlementEligibility ==
    LET eligible == {Biome.Beach, Biome.Grassland, Biome.TemperateForest, Biome.Savanna,
                     Biome.Taiga}
    IN  /\ \A n \in 1 .. Len(cities) :
               LET c == cities[n].y * width + cities[n].x
               IN  /\ landMask[c] = 1
                   /\ biome[c] \in eligible
                   /\ scored[c] > 0
        /\ bestIdx >= 0 => (scores[bestIdx] > 0 /\ bestScore = scores[bestIdx])
        /\ scores # <<>> =>
               \A c \in Cells(width, height) :
                   /\ scores[c] <= scored[c]
                   /\ (landMask[c] = 0 \/ biome[c] \notin eligible) => scored[c] = 0
                   /\ TooClose(c, placed, width, settings.cities.minSpacing) => scores[c] = 0

\* placeCities has returned a city on a terrain with water, desert and
\* eligible land, after suppressing the score of a cell it did not build on
\* and running the remaining iterations without a candidate.
SettlementEligibilityWitness ==
    /\ cpc = "done"
    /\ Len(cities) = 1
    /\ cityI = MaxCount
    /\ \E c \in Cells(width, height) : landMask[c] = 0
    /\ \E c \in Cells(width, height) : landMask[c] = 1 /\ biome[c] = Biome.Desert
    /\ \E c \in Cells(width, height) : c \notin placed /\ scored[c] > 0 /\ scores[c] = 0

\* ------------------------------------------ cities.ts: findPath, simplifyPath
\* Move costs are kept in halves (2 is the source's 1.0), heights in levels of
\* 0.1 and forest intensities are 0 or 255, so that every cost is an integer.

\* perpendicularDistance(point, lineStart, lineEnd), squared, as the fraction
\* PerpNum / PerpDen.
PerpDen(lineStart, lineEnd) ==
    LET dx == lineEnd.x - lineStart.x
        dy == lineEnd.y - lineStart.y
    IN  IF dx * dx + dy * dy = 0 THEN 1 ELSE dx * dx + dy * dy

PerpNum(point, lineStart, lineEnd) ==
    LET dx == lineEnd.x - lineStart.x
        dy == lineEnd.y - lineStart.y
        cross == dy * point.x - dx * point.y
                 + lineEnd.x * lineStart.y - lineEnd.y * lineStart.x
    IN  IF dx * dx + dy * dy = 0
        THEN (point.x - lineStart.x) * (point.x - lineStart.x)
             + (point.y - lineStart.y) * (point.y - lineStart.y)
        ELSE cross * cross

\* The loop of simplifyPath that finds the point with maximum distance: the
\* index (1-based) of the first point at the largest distance > 0, or 0.
RECURSIVE MaxDistScan(_, _, _, _)
MaxDistScan(path, n, maxNum, maxIdx) ==
    IF n > Len(path) - 1 THEN <<maxNum, maxIdx>>
    ELSE LET num == PerpNum(path[n], path[1], path[Len(path)])
         IN  IF num > maxNum
             THEN MaxDistScan(path, n + 1, num, n)
             ELSE MaxDistScan(path, n + 1, maxNum, maxIdx)

\* if (maxDist > epsilon), for the default epsilon = 2, on the squares
epsilon == 2
TooFarMutLoose(num, den) == num > (epsilon + 1) * (epsilon + 1) * den
TooFar(num, den) == num > epsilon * epsilon * den

\* simplifyPath(path, epsilon = 2): Ramer-Douglas-Peucker
RECURSIVE simplifyPath(_)
simplifyPath(path) ==
    IF Len(path) <= 2 THEN path
    ELSE LET m == MaxDistScan(path, 2, 0, 0)
         IN  IF TooFar(m[1], PerpDen(path[1], path[Len(path)]))
             THEN LET left == simplifyPath(SubSeq(path, 1, m[2]))
                      right == simplifyPath(SubSeq(path, m[2], Len(path)))
                  IN  SubSeq(left, 1, Len(left) - 1) \o right
             ELSE <<path[1], path[Len(path)]>>

\* heuristic(x, y): Manhattan distance to the goal
heuristic(x, y, to) == 2 * (Abs(x - to.x) + Abs(y - to.y))

\* getCost(x, y, px, py)
getCost(x, y, px, py, hm, lm, fo, st, w) ==
    LET idx == y * w + x
        elev == hm[idx]
        prevElev == hm[py * w + px]
    IN  IF lm[idx] = 0 THEN st.roads.costWater
        ELSE 2
             + Abs(elev - prevElev) * st.roads.costElevation
             + (IF elev > st.map.seaLevel + 5 THEN st.roads.costMountain ELSE 0)
             + (IF fo[idx] > 0 THEN (st.roads.costForest * fo[idx]) \div 255 ELSE 0)

\* The open set is the sequence of its nodes in insertion order, as a Map
\* iterates them; a node's parent is -1 for null.
OpenIndex(open, idx) ==
    IF \E n \in 1 .. Len(open) : open[n].idx = idx
    THEN CHOOSE n \in 1 .. Len(open) : open[n].idx = idx
    ELSE 0

\* Find node with lowest f: the first one in iteration order.
LowestF(open) ==
    CHOOSE n \in 1 .. Len(open) :
        /\ \A m \in 1 .. Len(open) : open[m].f >= open[n].f
        /\ \A m \in 1 .. n - 1 : open[m].f > open[n].f

RemoveAt(seq, n) == SubSeq(seq, 1, n - 1) \o SubSeq(seq, n + 1, Len(seq))

\* openSet.set(nidx, node): a new key goes last, an existing key keeps its place.
OpenSet(open, node) ==
    LET n == OpenIndex(open, node.idx)
    IN  IF n = 0 THEN Append(open, node) ELSE [open EXCEPT ![n] = node]

\* Check neighbors: the loops over dy and dx, k = (dy + 1) * 3 + (dx + 1).
RECURSIVE Neighbors(_, _, _, _, _, _, _, _, _, _, _)
Neighbors(open, closed, current, k, to, hm, lm, fo, st, w, h) ==
    IF k > 8 THEN open
    ELSE LET dy == (k \div 3) - 1
             dx == (k % 3) - 1
             nx == current.x + dx
             ny == current.y + dy
             nidx == ny * w + nx
         IN  IF (dx = 0 /\ dy = 0) \/ ~InBounds(nx, ny, w, h) \/ nidx \in closed
             THEN Neighbors(open, closed, current, k + 1, to, hm, lm, fo, st, w, h)
             ELSE LET g == current.g + getCost(nx, ny, current.x, current.y, hm, lm, fo, st, w)
                      e == OpenIndex(open, nidx)
                  IN  IF e # 0 /\ open[e].g <= g
                      THEN Neighbors(open, closed, current, k + 1, to, hm, lm, fo, st, w, h)
                      ELSE Neighbors(
                               OpenSet(open, [idx |-> nidx, x |-> nx, y |-> ny, g |-> g,
                                              f |-> g + heuristic(nx, ny, to),
                                              parent |-> current.idx]),
                               closed, current, k + 1, to, hm, lm, fo, st, w, h)

\* Reconstruct path by tracing parent pointers through pathNodes.
RECURSIVE TracePath(_, _, _)
TracePath(traceIdx, pathNodes, w) ==
    IF traceIdx = -1 THEN <<>>
    ELSE LET n == OpenIndex(pathNodes, traceIdx)
         IN  TracePath(IF n # 0 THEN pathNodes[n].parent ELSE -1, pathNodes, w)
             \o <<[x |-> XOf(traceIdx, w), y |-> YOf(traceIdx, w)]>>

\* Copy openSet to pathNodes for reconstruction
pathNodesOf(open, closedNodes) == open

\* while (openSet.size > 0 && iterations < maxIterations): the budget test
WithinBudgetMutShort(n) == n + 1 < maxIterations
WithinBudget(n) == n < maxIterations

\* The A* loop; closedNodes keeps the nodes taken out of the open set, which
\* the source drops.  The result is the record of the search: found, the
\* simplified path, the raw cell path along the parent pointers of all nodes,
\* the cost g of the goal and the iterations used.
RECURSIVE AStar(_, _, _, _, _, _, _, _, _, _, _)
AStar(open, closed, closedNodes, iterations, to, hm, lm, fo, st, w, h) ==
    IF open = <<>> \/ ~WithinBudget(iterations)
    THEN [found |-> FALSE, path |-> <<>>, raw |-> <<>>, g |-> 0, iterations |-> iterations]
    ELSE LET current == open[LowestF(open)]
         IN  IF current.idx = to.y * w + to.x
             THEN [found |-> TRUE,
                   path |-> simplifyPath(
                                TracePath(current.idx, pathNodesOf(open, closedNodes), w)),
                   raw |-> TracePath(current.idx, open \o closedNodes, w),
                   g |-> current.g,
                   iterations |-> iterations + 1]
             ELSE AStar(
                      Neighbors(RemoveAt(open, LowestF(open)), closed \cup {current.idx},
                                current, 0, to, hm, lm, fo, st, w, h),
                      closed \cup {current.idx}, Append(closedNodes, current),
                      iterations + 1, to, hm, lm, fo, st, w, h)

\* findPath(from, to, heightMap, landMask, forest, settings, width, height)
findPath(from, to, hm, lm, fo, st, w, h) ==
    AStar(<<[idx |-> from.y * w + from.x, x |-> from.x, y |-> from.y, g |-> 0,
             f |-> heuristic(from.x, from.y, to), parent |-> -1]>>,
          {}, <<>>, 0, to, hm, lm, fo, st, w, h)


\* ------------------------------------------------- cities.ts: generateRoads
\* All pairs i < j of the city list, in the order of the two loops, each with
\* its squared distance.
RECURSIVE AllPairs(_, _, _)
AllPairs(cs, m, n) ==
    IF m > Len(cs) THEN <<>>
    ELSE IF n > Len(cs) THEN AllPairs(cs, m + 1, m + 2)
    ELSE <<[from |-> cs[m], to |-> cs[n],
            dist2 |-> (cs[m].x - cs[n].x) * (cs[m].x - cs[n].x)
                      + (cs[m].y - cs[n].y) * (cs[m].y - cs[n].y)]>>
         \o AllPairs(cs, m, n + 1)

\* pairs.sort((a, b) => a.dist - b.dist): a stable sort by distance.
RECURSIVE InsertSorted(_, _)
InsertSorted(sorted, p) ==
    IF sorted = <<>> THEN <<p>>
    ELSE IF Head(sorted).dist2 <= p.dist2
         THEN <<Head(sorted)>> \o InsertSorted(Tail(sorted), p)
         ELSE <<p>> \o sorted

SortPairsMutUnsorted(ps) == ps
RECURSIVE SortPairs(_)
SortPairs(ps) ==
    IF ps = <<>> THEN <<>>
    ELSE InsertSorted(SortPairs(SubSeq(ps, 1, Len(ps) - 1)), ps[Len(ps)])

\* connections.get(id) || 0
ConnsOf(conns, id) == IF id \in DOMAIN conns THEN conns[id] ELSE 0

\* connections.set(id, n)
ConnsSet(conns, id, n) ==
    [k \in DOMAIN conns \cup {id} |-> IF k = id THEN n ELSE conns[k]]

\* if (fromConns >= maxConnectionsPerCity || toConns >= maxConnectionsPerCity) continue
AtLimitMutOnlyFrom(fromConns, toConns, maxConns) == fromConns >= maxConns
AtLimit(fromConns, toConns, maxConns) == fromConns >= maxConns \/ toConns >= maxConns

\* if (path) { ...; connections.set(from.id, fromConns + 1);
\*             connections.set(to.id, toConns + 1) }
ConnectedMutAlways(conns, found, fromId, toId, fromConns, toConns) ==
    ConnsSet(ConnsSet(conns, fromId, fromConns + 1), toId, toConns + 1)
Connected(conns, found, fromId, toId, fromConns, toConns) ==
    IF found
    THEN ConnsSet(ConnsSet(conns, fromId, fromConns + 1), toId, toConns + 1)
    ELSE conns

\* for (let j = i + 1; ...): the pairs of the city list
CityPairsMutSelf(cs) == AllPairs(cs, 1, 1)
CityPairs(cs) == AllPairs(cs, 1, 2)

\* Input terrains: land at level 5 over a sea level of 4, a water channel in
\* column a, a mountain ridge (level 10) in column m, forest along row f.
RoadTerrain(a, m, f) ==
    /\ width = RoadWidth
    /\ height = RoadHeight
    /\ landMask = [c \in Cells(RoadWidth, RoadHeight) |->
                      IF XOf(c, RoadWidth) = a THEN 0 ELSE 1]
    /\ heightMap = [c \in Cells(RoadWidth, RoadHeight) |->
                       IF XOf(c, RoadWidth) = a THEN 3
                       ELSE IF XOf(c, RoadWidth) = m THEN 10 ELSE 5]
    /\ forest = [c \in Cells(RoadWidth, RoadHeight) |->
                    IF XOf(c, RoadWidth) # a /\ YOf(c, RoadWidth) = f THEN 255 ELSE 0]

\* The city lists placeCities can return: cities on distinct land cells, the
\* ids increasing from off, the capital being the city of iteration 0.
RoadCityLists(lm, w, h) ==
    LET land == {c \in Cells(w, h) : lm[c] = 1}
        cells == UNION {[1 .. n -> land] : n \in 0 .. MaxCities}
    IN  {[n \in DOMAIN cs |->
            [id |-> n - 1 + off, x |-> XOf(cs[n], w), y |-> YOf(cs[n], w),
             type |-> IF n - 1 + off = 0 THEN "capital" ELSE "town"]] :
         cs \in {q \in cells : \A m, n \in DOMAIN q : m # n => q[m] # q[n]},
         off \in 0 .. 1}

RoadSettings ==
    [map : [seaLevel : {4}],
     roads : [enabled : BOOLEAN, maxConnectionsPerCity : 1 .. MaxConnections,
              costElevation : {4}, costWater : {200}, costForest : {3},
              costMountain : {10}]]

RoadInputs ==
    /\ \E a \in {-1, 1}, m \in {-1, 1}, f \in {-1, 1} : RoadTerrain(a, m, f)
    /\ cities \in RoadCityLists(landMask, width, height)
    /\ settings \in RoadSettings
    /\ biome = <<>>
    /\ rivers = <<>>
    /\ cpc = "done"
    /\ scores = <<>>
    /\ scored = <<>>
    /\ placed = {}
    /\ cityI = 0
    /\ sampleS = 0
    /\ bestIdx = -1
    /\ bestScore = 0

RoadsStart ==
    /\ rpc = "start"
    /\ pairs = <<>>
    /\ pairK = 0
    /\ roads = <<>>
    /\ connections = <<>>
    /\ attempts = <<>>

InitRoads == RoadInputs /\ RoadsStart /\ FlowIdle /\ WorldIdle /\ StagesIdle

\* generateRoads up to its connection loop: the early return, the sorted pairs.
EnumeratePairs ==
    /\ rpc = "start"
    /\ IF ~settings.roads.enabled \/ Len(cities) < 2
       THEN /\ rpc' = "done"
            /\ UNCHANGED pairs
       ELSE /\ pairs' = SortPairs(CityPairs(cities))
            /\ rpc' = "connect"
    /\ UNCHANGED <<gridVars, flowVars, cityInputs, cityVars, forest, pairK, roads,
                   connections, attempts, worldVars, stageVars>>

\* One iteration of the loop over the sorted pairs.
TakePair ==
    /\ rpc = "connect"
    /\ pairK < Len(pairs)
    /\ LET from == pairs[pairK + 1].from
           to == pairs[pairK + 1].to
           fromConns == ConnsOf(connections, from.id)
           toConns == ConnsOf(connections, to.id)
       IN  IF AtLimit(fromConns, toConns, settings.roads.maxConnectionsPerCity)
           THEN /\ attempts' = Append(attempts,
                        [from |-> from.id, to |-> to.id, outcome |-> "skipped"])
                /\ UNCHANGED <<roads, connections>>
           ELSE LET found == findPath(from, to, heightMap, landMask, forest, settings,
                                      width, height)
                IN  IF found.found
                    THEN /\ roads' = Append(roads,
                                 [fromCityId |-> from.id, toCityId |-> to.id,
                                  path |-> found.path])
                         /\ connections' = Connected(connections, TRUE, from.id, to.id,
                                                     fromConns, toConns)
                         /\ attempts' = Append(attempts,
                                 [from |-> from.id, to |-> to.id, outcome |-> "road"])
                    ELSE /\ attempts' = Append(attempts,
                                 [from |-> from.id, to |-> to.id, outcome |-> "null"])
                         /\ connections' = Connected(connections, FALSE, from.id, to.id,
                                                     fromConns, toConns)
                         /\ UNCHANGED roads
    /\ pairK' = pairK + 1
    /\ UNCHANGED <<gridVars, flowVars, cityInputs, cityVars, forest, rpc, pairs, worldVars, stageVars>>

\* return roads
ReturnRoads ==
    /\ rpc = "connect"
    /\ pairK = Len(pairs)
    /\ rpc' = "done"
    /\ UNCHANGED <<gridVars, flowVars, cityInputs, cityVars, forest, pairs, pairK, roads,
                   connections, attempts, worldVars, stageVars>>

NextRoads ==
    \/ EnumeratePairs
    \/ TakePair
    \/ ReturnRoads

SpecRoads == InitRoads /\ [][NextRoads]_vars


\* The city of the list with the given id.
CityOf(id) == cities[CHOOSE n \in 1 .. Len(cities) : cities[n].id = id]

\* The roads among rs that have the city id as an endpoint.
RoadsAt(rs, id) == {n \in 1 .. Len(rs) : rs[n].fromCityId = id \/ rs[n].toCityId = id}

\* C3 as claimed: every road's path starts at the grid coordinates of the
\* city fromCityId and ends at those of the city toCityId, and has at most as
\* many points as the raw A* cell path between the two cities.
RoadEndpoints ==
    \A n \in 1 .. Len(roads) :
        LET from == CityOf(roads[n].fromCityId)
            to == CityOf(roads[n].toCityId)
            path == roads[n].path
        IN  /\ path[1] = [x |-> from.x, y |-> from.y]
            /\ path[Len(path)] = [x |-> to.x, y |-> to.y]
            /\ Len(path) <= Len(findPath(from, to, heightMap, landMask, forest, settings,
                                         width, height).raw)

\* C8: no road has fromCityId = toCityId and no unordered pair of city ids
\* appears in more than one road.
RoadIdentity ==
    /\ \A n \in 1 .. Len(roads) : roads[n].fromCityId # roads[n].toCityId
    /\ \A m, n \in 1 .. Len(roads) :
           m # n => {roads[m].fromCityId, roads[m].toCityId}
                    # {roads[n].fromCityId, roads[n].toCityId}

\* generateRoads has returned three roads over three cities.
RoadIdentityWitness ==
    /\ rpc = "done"
    /\ Len(cities) = 3
    /\ Len(roads) = 3

\* The roads built by the attempts before the k-th that touch the city id.
RoadsBefore(k, id) ==
    {n \in 1 .. k - 1 :
        attempts[n].outcome = "road" /\ (attempts[n].from = id \/ attempts[n].to = id)}

\* C9: the recorded connection count of each city is the number of roads so
\* far that have it as an endpoint, a path is attempted for a pair only if
\* both counts are below maxConnectionsPerCity, and no city is an endpoint of
\* more than maxConnectionsPerCity roads.
ConnectionLimit ==
    rpc \in {"connect", "done"} =>
        /\ \A n \in 1 .. Len(cities) :
               /\ ConnsOf(connections, cities[n].id)
                      = Cardinality(RoadsAt(roads, cities[n].id))
               /\ Cardinality(RoadsAt(roads, cities[n].id))
                      <= settings.roads.maxConnectionsPerCity
        /\ \A k \in 1 .. Len(attempts) :
               attempts[k].outcome # "skipped" =>
                   /\ Cardinality(RoadsBefore(k, attempts[k].from))
                          < settings.roads.maxConnectionsPerCity
                   /\ Cardinality(RoadsBefore(k, attempts[k].to))
                          < settings.roads.maxConnectionsPerCity

\* generateRoads has returned after building a road and then leaving a pair
\* without an attempt because an endpoint was at the limit.
ConnectionLimitWitness ==
    /\ rpc = "done"
    /\ roads # <<>>
    /\ \E k \in 1 .. Len(attempts) : attempts[k].outcome = "skipped"
    /\ \E n \in 1 .. Len(cities) :
           ConnsOf(connections, cities[n].id) = settings.roads.maxConnectionsPerCity

\* findPath returns null for the pair the connection loop takes next.
NextPairUnreachable ==
    /\ rpc = "connect"
    /\ pairK < Len(pairs)
    /\ LET p == pairs[pairK + 1]
       IN  /\ ~AtLimit(ConnsOf(connections, p.from.id), ConnsOf(connections, p.to.id),
                       settings.roads.maxConnectionsPerCity)
           /\ ~findPath(p.from, p.to, heightMap, landMask, forest, settings,
                        width, height).found

\* C10: when findPath returns null for a pair, generateRoads adds no road for
\* it, leaves the connection counts unchanged and goes on with the next pair;
\* it returns only after it has taken every pair, and no road joins a pair
\* whose search failed.
UnreachableOmitted ==
    /\ [][NextPairUnreachable =>
             /\ roads' = roads
             /\ connections' = connections
             /\ pairK' = pairK + 1
             /\ rpc' = "connect"]_vars
    /\ [](rpc = "done" => pairK = Len(pairs))
    /\ [](\A k \in 1 .. Len(attempts) :
              attempts[k].outcome = "null" =>
                  \A n \in 1 .. Len(roads) :
                      {roads[n].fromCityId, roads[n].toCityId}
                      # {attempts[k].from, attempts[k].to})

\* generateRoads has returned after a failed search that was followed by a
\* successful one.
UnreachableOmittedWitness ==
    /\ rpc = "done"
    /\ \E k \in 1 .. Len(attempts) :
           /\ attempts[k].outcome = "null"
           /\ \E n \in k + 1 .. Len(attempts) : attempts[n].outcome = "road"

\* The squared straight-line distance between two cities.
CityDist2(a, b) == (a.x - b.x) * (a.x - b.x) + (a.y - b.y) * (a.y - b.y)

\* The pair list holds every pair i < j of the city list exactly once, in
\* non-decreasing order of the distance between the two cities; the loop has
\* taken its pairs in that order; the roads are in non-decreasing order of
\* the distance between their two cities; and a pair was left without an
\* attempt only when the roads of the pairs taken before it had brought one
\* of its cities to maxConnectionsPerCity.
PairsShortestFirst ==
        /\ \A i, j \in 1 .. Len(cities) :
               i < j => Cardinality({k \in 1 .. Len(pairs) :
                                       pairs[k].from = cities[i] /\ pairs[k].to = cities[j]}) = 1
        /\ 2 * Len(pairs) = Len(cities) * (Len(cities) - 1)
        /\ \A k, l \in 1 .. Len(pairs) :
               k < l => CityDist2(pairs[k].from, pairs[k].to)
                            <= CityDist2(pairs[l].from, pairs[l].to)
        /\ Len(attempts) = pairK
        /\ rpc = "done" => pairK = Len(pairs)
        /\ \A k \in 1 .. Len(attempts) :
               /\ attempts[k].from = pairs[k].from.id
               /\ attempts[k].to = pairs[k].to.id
               /\ attempts[k].outcome = "skipped" =>
                      \/ Cardinality(RoadsBefore(k, attempts[k].from))
                             >= settings.roads.maxConnectionsPerCity
                      \/ Cardinality(RoadsBefore(k, attempts[k].to))
                             >= settings.roads.maxConnectionsPerCity
        /\ \A m, n \in 1 .. Len(roads) :
               m < n => CityDist2(CityOf(roads[m].fromCityId), CityOf(roads[m].toCityId))
                            <= CityDist2(CityOf(roads[n].fromCityId), CityOf(roads[n].toCityId))

\* C27 as claimed: whenever generateRoads has run, it has considered every
\* unordered pair of cities exactly once in non-decreasing order of distance,
\* its roads are in that order, and a pair is without an attempt only
\* because an endpoint had reached maxConnectionsPerCity.
ShortestFirstAlways ==
    rpc \in {"connect", "done"} => PairsShortestFirst

\* C27: greedy shortest-first roads, with roads enabled.  When
\* settings.roads.enabled is true, the pairs, the attempts and the roads are
\* as claimed; when it is false generateRoads returns no road and considers
\* no pair, whatever the connection counts.
ShortestFirst ==
    rpc \in {"connect", "done"} =>
        IF settings.roads.enabled
        THEN PairsShortestFirst
        ELSE rpc = "done" /\ pairs = <<>> /\ attempts = <<>> /\ roads = <<>>

\* generateRoads has returned two roads of different lengths over three
\* cities whose pairs the two loops enumerate longest first.
ShortestFirstWitness ==
    /\ rpc = "done"
    /\ Len(cities) = 3
    /\ CityDist2(cities[1], cities[2]) > CityDist2(cities[1], cities[3])
    /\ CityDist2(cities[1], cities[3]) > CityDist2(cities[2], cities[3])
    /\ Len(roads) >= 2
    /\ CityDist2(CityOf(roads[1].fromCityId), CityOf(roads[1].toCityId))
           < CityDist2(CityOf(roads[2].fromCityId), CityOf(roads[2].toCityId))

\* ------------------------------------------------- index.ts: generateWorld
\* hashString: hash = ((hash << 5) - hash) + char, then Math.abs(hash) || 1.
\* A string is the sequence of its char codes.  The seeds of the model are
\* short enough for the hash to stay below 2^31, where hash & hash keeps it.
RECURSIVE hashString(_, _, _)
hashString(str, i, hash) ==
    IF i > Len(str) THEN (IF Abs(hash) = 0 THEN 1 ELSE Abs(hash))
    ELSE hashString(str, i + 1, (hash * 32 - hash) + str[i])

\* The PRNG class.  A generator is the state it was constructed with and the
\* number of next() calls made on it: mulberry32 steps the state the same
\* way on every call, so the two determine every later draw.
NewPRNGMutUnseeded(seed) == [state |-> 0 - Len(calls), draws |-> 0]
NewPRNG(seed) == [state |-> hashString(seed, 1, 0), draws |-> 0]

\* fork(): new PRNG(Math.floor(this.next() * 2147483647)).  Stream(p, k) is
\* the generator returned by the k-th fork of p from now on, constructed
\* with the number that draw of p gives; After(p, k) is p once k forks have
\* been made.
Stream(p, k) == [state |-> [of |-> p.state, draw |-> p.draws + k], draws |-> 0]
After(p, k) == [p EXCEPT !.draws = @ + k]

\* The number of prng.fork() calls in each block of generateWorld.  None of
\* them is conditional: the count is the same under every settings value.
TopLevelForksMutHoisted(stage, st) ==
    CASE stage = "init" -> IF st.roads.enabled THEN 1 ELSE 0
      [] stage \in {"continents", "elevation"} -> 3
      [] stage = "climate" -> 2
      [] stage \in {"forests", "cities"} -> 1
      [] OTHER -> 0
TopLevelForks(stage, st) ==
    CASE stage \in {"continents", "elevation"} -> 3
      [] stage = "climate" -> 2
      [] stage \in {"forests", "cities"} -> 1
      [] OTHER -> 0

\* The values a call computes, by the name generateWorld gives them.
LayerNames ==
    {"continentSeeds", "landMask", "continentId", "mountainRanges", "heightMap",
     "mountainMask", "flowDir", "flowAccum", "rivers", "lakeMask", "waterDistance",
     "temperature", "moisture", "biome", "forest", "cities", "roads"}

\* The layers of the returned WorldData.
SnapshotLayers ==
    {"heightMap", "landMask", "temperature", "moisture", "biome", "flowDir",
     "flowAccum", "rivers", "forest", "cities", "roads", "continentId",
     "mountainMask", "lakeMask"}

NoLayers == [n \in LayerNames |-> {}]

\* A computed value is kept as its derivation: the set of the function
\* applications it results from, each with the settings fields the function
\* reads and the generators it is handed.  The functions are deterministic
\* in these, so equal derivations are equal values.  {} is "not computed".
\* inputs are the derivations of the arguments that are computed values.
Derive(name, reads, streams, inputs) ==
    {<<name, reads, streams>>} \cup UNION inputs

\* onProgress?.(stage, percent)
ReportMutRestart(stage, percent) ==
    IF onProgress
    THEN Append(progress, <<stage, IF percent = 40 THEN 0 ELSE percent>>)
    ELSE progress
Report(stage, percent) ==
    IF onProgress THEN Append(progress, <<stage, percent>>) ELSE progress

\* The settings of the calls.  Lengths are cells, seaLevel is in tenths.
\* Beside well-formed values the set holds a zero and a negative dimension,
\* inverted count ranges and sea levels at both ends of [0, 1].
WorldSettings ==
    {[map |-> [width |-> d[1], height |-> d[2], seed |-> sd, seaLevel |-> sl],
      continents |-> [continentCountMin |-> cc[1], continentCountMax |-> cc[2]],
      elevation |-> [mountainRangeCountMin |-> mr[1], mountainRangeCountMax |-> mr[2]],
      hydrology |-> [rainfallBias |-> 5, riverMinAccum |-> 50],
      climate |-> [latitudeTempStrength |-> 7],
      biomes |-> [mountainElevationMin |-> 7],
      forests |-> [enabled |-> fe],
      cities |-> [enabled |-> ce, count |-> 20],
      roads |-> [enabled |-> re, maxConnectionsPerCity |-> 3]] :
        d \in {<<MapSide, MapSide>>, <<0, MapSide>>, <<MapSide, -1>>},
        sd \in SeedStrings,
        sl \in {4, 0, 10},
        cc \in {<<2, 5>>, <<5, 2>>},
        mr \in {<<3, 8>>, <<8, 3>>},
        fe \in BOOLEAN, ce \in BOOLEAN, re \in BOOLEAN}

\* The settings of a further call: the caller has changed the seed or the
\* forests, cities or roads sections of the settings it passed before.
Regenerate(prev) ==
    {[prev EXCEPT !.map.seed = sd, !.forests.enabled = fe,
                  !.cities.enabled = ce, !.roads.enabled = re] :
        sd \in SeedStrings, fe \in BOOLEAN, ce \in BOOLEAN, re \in BOOLEAN}

CallInputs ==
    IF calls = <<>> THEN WorldSettings ELSE Regenerate(calls[Len(calls)].settings)

otherVars == <<heightMap, landMask, flowVars, biome, rivers, cityVars, roadVars, stageVars>>

InitWorld ==
    /\ width = 0
    /\ height = 0
    /\ heightMap = <<>>
    /\ landMask = <<>>
    /\ FlowIdle
    /\ CitiesIdle
    /\ RoadsIdle
    /\ wpc = "idle"
    /\ onProgress = FALSE
    /\ prng = <<>>
    /\ progress = <<>>
    /\ layers = NoLayers
    /\ calls = <<>>
    /\ StagesIdle

\* generateWorld(settings, onProgress) up to the first stage
GenerateWorld ==
    /\ wpc = "idle"
    /\ Len(calls) < MaxCalls
    /\ \E st \in CallInputs, cb \in BOOLEAN :
        /\ settings' = st
        /\ onProgress' = cb
        /\ width' = st.map.width
        /\ height' = st.map.height
        /\ prng' = After(NewPRNG(st.map.seed), TopLevelForks("init", st))
        /\ progress' = IF cb THEN <<<<"Initializing...", 0>>>> ELSE <<>>
    /\ layers' = NoLayers
    /\ wpc' = "continents"
    /\ UNCHANGED <<otherVars, calls>>

\* Step 1: Generate continents.  The three forks are arguments, made before
\* generateContinentMask is entered; its new Uint8Array(width * height)
\* throws a RangeError for a negative length.
StageContinents ==
    /\ wpc = "continents"
    /\ progress' = Report("Generating continents...", 5)
    /\ LET st == settings
           continentSeeds ==
               Derive("generateContinentSeeds",
                      <<st.map.width, st.map.height, st.continents>>,
                      <<Stream(prng, 1)>>, {})
           mask ==
               Derive("generateContinentMask",
                      <<st.map.width, st.map.height, st.map.seaLevel, st.continents>>,
                      <<Stream(prng, 2), Stream(prng, 3)>>, {continentSeeds})
       IN  IF width * height < 0
           THEN /\ layers' = [layers EXCEPT !["continentSeeds"] = continentSeeds]
                /\ wpc' = "thrown"
           ELSE /\ layers' = [layers EXCEPT !["continentSeeds"] = continentSeeds,
                                            !["landMask"] = mask,
                                            !["continentId"] = mask]
                /\ wpc' = "elevation"
    /\ prng' = After(prng, TopLevelForks("continents", settings))
    /\ UNCHANGED <<width, height, settings, onProgress, otherVars, calls>>

\* Step 2: Generate elevation and mountains
StageElevation ==
    /\ wpc = "elevation"
    /\ progress' = Report("Building mountains...", 15)
    /\ LET st == settings
           mountainRanges ==
               Derive("generateMountainRanges",
                      <<st.map.width, st.map.height, st.elevation>>,
                      <<Stream(prng, 1)>>, {layers["landMask"]})
           hm ==
               Derive("generateHeightMap",
                      <<st.map.width, st.map.height, st.map.seaLevel, st.elevation>>,
                      <<Stream(prng, 2), Stream(prng, 3)>>,
                      {layers["landMask"], mountainRanges})
       IN  layers' = [layers EXCEPT !["mountainRanges"] = mountainRanges,
                                    !["heightMap"] = hm,
                                    !["mountainMask"] = hm]
    /\ prng' = After(prng, TopLevelForks("elevation", settings))
    /\ wpc' = "hydrology"
    /\ UNCHANGED <<width, height, settings, onProgress, otherVars, calls>>

\* Step 3: Generate hydrology
StageHydrology ==
    /\ wpc = "hydrology"
    /\ progress' = Report("Simulating water flow...", 30)
    /\ LET fd == Derive("calculateFlowDirection", <<width, height>>, <<>>,
                        {layers["heightMap"], layers["landMask"]})
           fa == Derive("calculateFlowAccumulation", <<width, height>>, <<>>,
                        {fd, layers["landMask"]})
           rv == Derive("generateRivers", <<settings.hydrology, width, height>>, <<>>,
                        {fa, fd, layers["landMask"], layers["heightMap"]})
       IN  layers' = [layers EXCEPT !["flowDir"] = fd,
                                    !["flowAccum"] = fa,
                                    !["rivers"] = rv]
    /\ prng' = After(prng, TopLevelForks("hydrology", settings))
    /\ wpc' = "lakes"
    /\ UNCHANGED <<width, height, settings, onProgress, otherVars, calls>>

\* detectLakes and calculateWaterDistance
StageLakes ==
    /\ wpc = "lakes"
    /\ progress' = Report("Detecting lakes...", 40)
    /\ LET lakes ==
               Derive("detectLakes", <<settings.hydrology, width, height>>, <<>>,
                      {layers["heightMap"], layers["landMask"], layers["flowDir"]})
           waterDistance ==
               Derive("calculateWaterDistance", <<width, height>>, <<>>,
                      {layers["landMask"], layers["rivers"], lakes})
       IN  layers' = [layers EXCEPT !["lakeMask"] = lakes,
                                    !["waterDistance"] = waterDistance]
    /\ prng' = After(prng, TopLevelForks("lakes", settings))
    /\ wpc' = "climate"
    /\ UNCHANGED <<width, height, settings, onProgress, otherVars, calls>>

\* Step 4: Generate climate
StageClimate ==
    /\ wpc = "climate"
    /\ progress' = Report("Calculating climate...", 50)
    /\ LET st == settings
           temp ==
               Derive("generateTemperature",
                      <<st.climate, st.map.seaLevel, width, height>>,
                      <<Stream(prng, 1)>>,
                      {layers["heightMap"], layers["landMask"]})
           moist ==
               Derive("generateMoisture",
                      <<st.climate, st.hydrology.rainfallBias, width, height>>,
                      <<Stream(prng, 2)>>,
                      {layers["heightMap"], layers["landMask"], layers["waterDistance"]})
       IN  layers' = [layers EXCEPT !["temperature"] = temp,
                                    !["moisture"] = moist]
    /\ prng' = After(prng, TopLevelForks("climate", settings))
    /\ wpc' = "biomes"
    /\ UNCHANGED <<width, height, settings, onProgress, otherVars, calls>>

\* Step 5: Classify biomes
StageBiomes ==
    /\ wpc = "biomes"
    /\ progress' = Report("Assigning biomes...", 60)
    /\ layers' = [layers EXCEPT !["biome"] =
           Derive("classifyBiomes",
                  <<settings.biomes, settings.map.seaLevel, width, height>>, <<>>,
                  {layers["heightMap"], layers["landMask"], layers["lakeMask"],
                   layers["temperature"], layers["moisture"]})]
    /\ prng' = After(prng, TopLevelForks("biomes", settings))
    /\ wpc' = "forests"
    /\ UNCHANGED <<width, height, settings, onProgress, otherVars, calls>>

\* Step 6: Generate forests.  The fork is an argument: it is made whether
\* or not settings.forests.enabled.
StageForests ==
    /\ wpc = "forests"
    /\ progress' = Report("Growing forests...", 70)
    /\ layers' = [layers EXCEPT !["forest"] =
           Derive("generateForests", <<settings.forests, width, height>>,
                  <<Stream(prng, 1)>>,
                  {layers["biome"], layers["moisture"], layers["waterDistance"]})]
    /\ prng' = After(prng, TopLevelForks("forests", settings))
    /\ wpc' = "cities"
    /\ UNCHANGED <<width, height, settings, onProgress, otherVars, calls>>

\* Step 7: Place cities
StageCities ==
    /\ wpc = "cities"
    /\ progress' = Report("Founding cities...", 80)
    /\ layers' = [layers EXCEPT !["cities"] =
           Derive("placeCities", <<settings.cities, width, height>>,
                  <<Stream(prng, 1)>>,
                  {layers["heightMap"], layers["landMask"], layers["biome"],
                   layers["rivers"]})]
    /\ prng' = After(prng, TopLevelForks("cities", settings))
    /\ wpc' = "roads"
    /\ UNCHANGED <<width, height, settings, onProgress, otherVars, calls>>

\* Step 8: Generate roads
StageRoads ==
    /\ wpc = "roads"
    /\ progress' = Report("Building roads...", 90)
    /\ layers' = [layers EXCEPT !["roads"] =
           Derive("generateRoads",
                  <<settings.roads, settings.map.seaLevel, width, height>>, <<>>,
                  {layers["cities"], layers["heightMap"], layers["landMask"],
                   layers["forest"]})]
    /\ prng' = After(prng, TopLevelForks("roads", settings))
    /\ wpc' = "complete"
    /\ UNCHANGED <<width, height, settings, onProgress, otherVars, calls>>

\* onProgress?.('Complete!', 100); return { width, height, ... }
ReturnWorld ==
    /\ wpc = "complete"
    /\ progress' = Report("Complete!", 100)
    /\ calls' = Append(calls,
           [settings |-> settings, outcome |-> "returned", progress |-> progress',
            snapshot |-> [width |-> width, height |-> height,
                          layer |-> [n \in SnapshotLayers |-> layers[n]]]])
    /\ wpc' = "idle"
    /\ UNCHANGED <<width, height, settings, onProgress, otherVars, prng, layers>>

\* The RangeError leaves generateWorld: the call returns nothing.
ThrowWorld ==
    /\ wpc = "thrown"
    /\ calls' = Append(calls,
           [settings |-> settings, outcome |-> "RangeError", progress |-> progress,
            snapshot |-> <<>>])
    /\ wpc' = "idle"
    /\ UNCHANGED <<width, height, settings, onProgress, otherVars, prng, progress, layers>>

NextWorld ==
    \/ GenerateWorld
    \/ StageContinents
    \/ StageElevation
    \/ StageHydrology
    \/ StageLakes
    \/ StageClimate
    \/ StageBiomes
    \/ StageForests
    \/ StageCities
    \/ StageRoads
    \/ ReturnWorld
    \/ ThrowWorld

SpecWorld == InitWorld /\ [][NextWorld]_vars

ForkIndependence ==
    LET Later(section) ==
            CASE section = "roads" -> {"roads"}
              [] section = "cities" -> {"cities", "roads"}
              [] section = "forests" -> {"forest", "cities", "roads"}
    IN  \A m, n \in 1 .. Len(calls) : \A section \in {"forests", "cities", "roads"} :
            (/\ calls[m].settings[section] # calls[n].settings[section]
             /\ [calls[m].settings EXCEPT ![section] = calls[n].settings[section]]
                    = calls[n].settings)
                => /\ calls[m].outcome = calls[n].outcome
                   /\ calls[m].outcome = "returned"
                          => /\ calls[m].snapshot.width = calls[n].snapshot.width
                             /\ calls[m].snapshot.height = calls[n].snapshot.height
                             /\ \A l \in SnapshotLayers \ Later(section) :
                                    calls[m].snapshot.layer[l] = calls[n].snapshot.layer[l]

\* A world generated with roads and one generated without, all else equal.
ForkIndependenceWitness ==
    /\ Len(calls) = MaxCalls
    /\ calls[1].settings.roads.enabled
    /\ ~calls[2].settings.roads.enabled
    /\ [calls[1].settings EXCEPT !.roads = calls[2].settings.roads] = calls[2].settings
    /\ calls[1].outcome = "returned"
    /\ calls[2].outcome = "returned"
    /\ calls[1].snapshot.layer["cities"] # {}
    /\ calls[1].snapshot.layer["roads"] # calls[2].snapshot.layer["roads"]

\* C5: invalid configuration fails fast.  A call whose settings have a
\* dimension <= 0, an inverted continent or mountain range count range, or
\* a sea level outside (0, 1) computes nothing, reports no milestone of a
\* stage, and ends by raising an error.
InvalidFailsFast ==
    LET Invalid(st) ==
            \/ st.map.width <= 0
            \/ st.map.height <= 0
            \/ st.continents.continentCountMin > st.continents.continentCountMax
            \/ st.elevation.mountainRangeCountMin > st.elevation.mountainRangeCountMax
            \/ st.map.seaLevel <= 0
            \/ st.map.seaLevel >= 10
    IN  /\ (wpc # "idle" /\ Invalid(settings))
            => /\ layers = NoLayers
               /\ \A k \in 1 .. Len(progress) : progress[k][2] = 0
        /\ \A n \in 1 .. Len(calls) :
               Invalid(calls[n].settings)
                   => /\ calls[n].outcome # "returned"
                      /\ \A k \in 1 .. Len(calls[n].progress) :
                             calls[n].progress[k][2] = 0

\* ----------------------------------------------- biomes.ts: classifyBiomes
\* Elevation, temperature, moisture and the thresholds are in fortieths
\* (40 is the source's 1.0): every constant of the classifier is a whole
\* number of fortieths, snowTempMax * 1.5 included.

\* Hot biomes (temp >= 0.75)
HotBiomeMutGap(moist, b) ==
    IF moist < b.desertMoistureMax THEN Biome.Desert
    ELSE IF moist < 14 THEN Biome.Savanna
    ELSE IF moist < 24 THEN Biome.Grassland
    ELSE -1
HotBiome(moist, b) ==
    IF moist < b.desertMoistureMax THEN Biome.Desert
    ELSE IF moist < 14 THEN Biome.Savanna
    ELSE IF moist < 24 THEN Biome.Grassland
    ELSE Biome.Rainforest

\* Temperature/moisture based biomes
ClimateBiome(temp, moist, b) ==
    IF temp < b.snowTempMax THEN Biome.Snow
    ELSE IF temp < b.snowTempMax * 2
         THEN (IF moist < 12 THEN Biome.Tundra ELSE Biome.Taiga)
    ELSE IF temp < 20
         THEN (IF moist < b.desertMoistureMax THEN Biome.Grassland
               ELSE IF moist < 20 THEN Biome.Grassland
               ELSE Biome.TemperateForest)
    ELSE IF temp < 30
         THEN (IF moist < b.desertMoistureMax THEN Biome.Desert
               ELSE IF moist < 16 THEN Biome.Savanna
               ELSE IF moist < 28 THEN Biome.Grassland
               ELSE Biome.TemperateForest)
    ELSE HotBiome(moist, b)

\* Check if near ocean: a water cell within checkRadius = 3 in x and in y.
nearOcean(lm, x, y, w, h) ==
    \E dy \in -3 .. 3, dx \in -3 .. 3 :
        /\ InBounds(x + dx, y + dy, w, h)
        /\ lm[(y + dy) * w + (x + dx)] = 0

\* The classification loop with the lake test ahead of the water test.
classifyCellMutLakeFirst(idx, hm, lm, lk, tp, ms, st, w, h) ==
    LET b == st.biomes
        seaLevel == st.map.seaLevel
        landElev40 == (hm[idx] - seaLevel) * 40
    IN  IF lk[idx] = 1 THEN Biome.Lake
        ELSE IF lm[idx] = 0 THEN Biome.Ocean
        ELSE IF /\ landElev40 < b.beachElevationRange * (40 - seaLevel)
                /\ nearOcean(lm, XOf(idx, w), YOf(idx, w), w, h)
             THEN Biome.Beach
        ELSE IF landElev40 >= b.mountainElevationMin * (40 - seaLevel)
             THEN (IF tp[idx] * 2 < b.snowTempMax * 3
                   THEN Biome.Snow ELSE Biome.MountainRock)
        ELSE ClimateBiome(tp[idx], ms[idx], b)

\* The body of the classification loop for the cell idx: the biome it
\* assigns.  landElev = (elev - seaLevel) / (1 - seaLevel) is compared
\* with a threshold t as (elev - seaLevel) * 40 against t * (40 - seaLevel).
classifyCell(idx, hm, lm, lk, tp, ms, st, w, h) ==
    LET b == st.biomes
        seaLevel == st.map.seaLevel
        landElev40 == (hm[idx] - seaLevel) * 40
    IN  IF lm[idx] = 0 THEN Biome.Ocean
        ELSE IF lk[idx] = 1 THEN Biome.Lake
        ELSE IF /\ landElev40 < b.beachElevationRange * (40 - seaLevel)
                /\ nearOcean(lm, XOf(idx, w), YOf(idx, w), w, h)
             THEN Biome.Beach
        ELSE IF landElev40 >= b.mountainElevationMin * (40 - seaLevel)
             THEN (IF tp[idx] * 2 < b.snowTempMax * 3
                   THEN Biome.Snow ELSE Biome.MountainRock)
        ELSE ClimateBiome(tp[idx], ms[idx], b)

\* The cells of the inputs: the first takes every combination of the
\* values below, the others are plain land or ocean around it.
BiomeElevations == {16, 17, 18, 33, 34, 40}
BiomeTemperatures == {0, 5, 6, 8, 9, 11, 12, 19, 20, 29, 30, 40}
BiomeMoistures == {0, 7, 8, 11, 12, 13, 14, 15, 16, 19, 20, 23, 24, 27, 28, 40}

BiomeSettings ==
    [map |-> [seaLevel |-> 16],
     biomes |-> [desertMoistureMax |-> 8, snowTempMax |-> 6,
                 mountainElevationMin |-> 30, beachElevationRange |-> 2]]

BiomeInputs ==
    /\ width = BiomeWidth
    /\ height = 1
    /\ settings = BiomeSettings
    /\ \E e \in BiomeElevations, t \in BiomeTemperatures, m \in BiomeMoistures,
          land \in [Cells(BiomeWidth, 1) -> {0, 1}], lake \in {0, 1} :
        /\ heightMap = [c \in Cells(BiomeWidth, 1) |-> IF c = 0 THEN e ELSE 20]
        /\ temperature = [c \in Cells(BiomeWidth, 1) |-> IF c = 0 THEN t ELSE 20]
        /\ moisture = [c \in Cells(BiomeWidth, 1) |-> IF c = 0 THEN m ELSE 20]
        /\ landMask = land
        /\ lakeMask = [c \in Cells(BiomeWidth, 1) |-> IF c = 0 THEN lake ELSE 0]

InitBiomes ==
    /\ BiomeInputs
    /\ bpc = "loop"
    /\ bidx = 0
    /\ biome = [c \in Cells(BiomeWidth, 1) |-> 0]
    /\ bwrites = [c \in Cells(BiomeWidth, 1) |-> 0]
    /\ rivers = <<>>
    /\ CitiesLocalIdle
    /\ FlowIdle
    /\ RoadsIdle
    /\ WorldIdle
    /\ RngIdle
    /\ AuxIdle
    /\ WaterIdle
    /\ LakesIdle
    /\ MaskIdle

\* One iteration of the loops over y and x: the cell idx = y * width + x.
\* A cell no branch assigns keeps the 0 of the allocation.
ClassifyCell ==
    /\ bpc = "loop"
    /\ bidx < width * height
    /\ LET b == classifyCell(bidx, heightMap, landMask, lakeMask, temperature,
                             moisture, settings, width, height)
       IN  IF b < 0
           THEN UNCHANGED <<biome, bwrites>>
           ELSE /\ biome' = [biome EXCEPT ![bidx] = b]
                /\ bwrites' = [bwrites EXCEPT ![bidx] = @ + 1]
    /\ bidx' = bidx + 1
    /\ UNCHANGED <<gridVars, flowVars, settings, rivers, cityVars, roadVars, worldVars, rngVars,
                   bpc, temperature, moisture, lakeMask, waterVars, lakeVars, maskVars,
                   auxVars>>

\* return biome
ReturnBiomes ==
    /\ bpc = "loop"
    /\ bidx = width * height
    /\ bpc' = "done"
    /\ UNCHANGED <<gridVars, flowVars, cityInputs, cityVars, roadVars, worldVars, rngVars,
                   temperature, moisture, lakeMask, bidx, bwrites, waterVars, lakeVars, maskVars,
                   auxVars>>

NextBiomes ==
    \/ ClassifyCell
    \/ ReturnBiomes

SpecBiomes == InitBiomes /\ [][NextBiomes]_vars

\* C12: biome totality.  When classifyBiomes returns, every cell has been
\* assigned exactly once, its value is one of the 12 members of Biome, a
\* water cell is Ocean and a land cell is not.
BiomeTotality ==
    /\ Cardinality({Biome[n] : n \in DOMAIN Biome}) = 12
    /\ bpc = "done" =>
           \A idx \in Cells(width, height) :
               /\ bwrites[idx] = 1
               /\ biome[idx] \in {Biome[n] : n \in DOMAIN Biome}
               /\ (biome[idx] = Biome.Ocean) <=> (landMask[idx] = 0)

\* A hot and wet lowland cell away from the ocean has been classified.
BiomeTotalityWitness ==
    /\ bpc = "done"
    /\ \A c \in Cells(width, height) : landMask[c] = 1
    /\ lakeMask[0] = 0
    /\ temperature[0] = 40
    /\ moisture[0] = 40
    /\ biome[0] = Biome.Rainforest

\* C26: biome rule order.  When classifyBiomes has returned, a cell is Ocean
\* exactly when it is water, whatever its lake flag; Lake exactly when it is
\* land with the lake flag; Beach exactly when it is neither, its normalized
\* elevation is below beachElevationRange and a water cell lies within 3
\* cells; a cell none of these rules matches whose normalized elevation is at
\* least mountainElevationMin is Snow or MountainRock; and only a cell no
\* rule has matched carries a biome of the temperature bands.
BiomeRuleOrder ==
    bpc = "done" =>
        \A idx \in Cells(width, height) :
            LET water == landMask[idx] = 0
                lake == ~water /\ lakeMask[idx] = 1
                span == 40 - settings.map.seaLevel
                rise == (heightMap[idx] - settings.map.seaLevel) * 40
                beach == /\ ~water /\ ~lake
                         /\ rise < settings.biomes.beachElevationRange * span
                         /\ \E c \in Cells(width, height) :
                                /\ landMask[c] = 0
                                /\ Abs(XOf(c, width) - XOf(idx, width)) <= 3
                                /\ Abs(YOf(c, width) - YOf(idx, width)) <= 3
                mountain == /\ ~water /\ ~lake /\ ~beach
                            /\ rise >= settings.biomes.mountainElevationMin * span
            IN  /\ (biome[idx] = Biome.Ocean) <=> water
                /\ (biome[idx] = Biome.Lake) <=> lake
                /\ (biome[idx] = Biome.Beach) <=> beach
                /\ mountain => biome[idx] \in {Biome.Snow, Biome.MountainRock}
                /\ (biome[idx] = Biome.MountainRock) => mountain
                /\ biome[idx] \in {Biome.Tundra, Biome.Taiga, Biome.Grassland,
                                   Biome.TemperateForest, Biome.Desert, Biome.Savanna,
                                   Biome.Rainforest}
                       => (~water /\ ~lake /\ ~beach /\ ~mountain)

\* A water cell with the lake flag has been classified Ocean, next to a land
\* cell of a temperature band.
BiomeRuleOrderWitness ==
    /\ bpc = "done"
    /\ landMask[0] = 0
    /\ lakeMask[0] = 1
    /\ biome[0] = Biome.Ocean
    /\ landMask[1] = 1
    /\ biome[1] = Biome.Grassland

Infinity == [a |-> -1, b |-> -1]

\* p < q * sqrt(2), for integers p and q
SurdLess(p, q) ==
    IF q >= 0 THEN p < 0 \/ p * p < 2 * q * q
    ELSE p < 0 /\ p * p > 2 * q * q

\* d1 < d2 on distances
DistLess(d1, d2) ==
    /\ d1 # Infinity
    /\ d2 = Infinity \/ SurdLess(d1.a - d2.a, d2.b - d1.b)

\* const stepDist = (d % 2 === 0) ? 1 : Math.SQRT2; newDist = dist + stepDist
StepDist(dist, d) ==
    IF d % 2 = 0 THEN [dist EXCEPT !.a = @ + 1] ELSE [dist EXCEPT !.b = @ + 1]

\* Initialize with water cells, in index order from the cell i on.
RECURSIVE WaterCells(_, _, _, _, _)
WaterCells(lm, rv, lk, i, size) ==
    IF i >= size THEN <<>>
    ELSE (IF lm[i] = 0 \/ rv[i] > 0 \/ lk[i] = 1 THEN <<i>> ELSE <<>>)
         \o WaterCells(lm, rv, lk, i + 1, size)

\* The loop over d of the search for the entry (idx, dist), from direction d
\* on: the pair of the distance array and the queue it leaves.
RECURSIVE Relax(_, _, _, _, _, _, _)
Relax(dst, q, idx, dist, d, w, h) ==
    IF d > 7 THEN <<dst, q>>
    ELSE LET nx == XOf(idx, w) + DX[d + 1]
             ny == YOf(idx, w) + DY[d + 1]
             nidx == ny * w + nx
             newDist == StepDist(dist, d)
         IN  IF InBounds(nx, ny, w, h) /\ DistLess(newDist, dst[nidx])
             THEN Relax([dst EXCEPT ![nidx] = newDist],
                        Append(q, [idx |-> nidx, dist |-> newDist]),
                        idx, dist, d + 1, w, h)
             ELSE Relax(dst, q, idx, dist, d + 1, w, h)

\* let maxDist = 0; ... maxDist = Math.max(maxDist, distance[i]) over the
\* finite entries, from the cell i on.
RECURSIVE MaxDist(_, _, _, _)
MaxDist(dst, i, size, maxDist) ==
    IF i >= size THEN maxDist
    ELSE MaxDist(dst, i + 1, size,
                 IF dst[i] # Infinity /\ DistLess(maxDist, dst[i]) THEN dst[i] ELSE maxDist)

\* The value of an entry of the returned array, as a quotient of distances:
\* Math.min(1, distance[i] / maxDist) when maxDist > 0, else the entry as
\* the search left it.
Normalize(dst, maxDist) ==
    IF DistLess([a |-> 0, b |-> 0], maxDist)
    THEN [i \in DOMAIN dst |->
             [num |-> IF DistLess(maxDist, dst[i]) \/ dst[i] = Infinity
                      THEN maxDist ELSE dst[i],
              den |-> maxDist]]
    ELSE [i \in DOMAIN dst |-> [num |-> dst[i], den |-> [a |-> 1, b |-> 0]]]

\* Input layers: every cell is ocean, plain land, river or lake.
WaterInputs ==
    /\ width = WaterWidth
    /\ height = WaterHeight
    /\ \E kind \in [Cells(WaterWidth, WaterHeight) -> {"ocean", "land", "river", "lake"}] :
        /\ landMask = [c \in Cells(WaterWidth, WaterHeight) |->
                          IF kind[c] = "ocean" THEN 0 ELSE 1]
        /\ rivers = [c \in Cells(WaterWidth, WaterHeight) |->
                        IF kind[c] = "river" THEN 1 ELSE 0]
        /\ lakeMask = [c \in Cells(WaterWidth, WaterHeight) |->
                          IF kind[c] = "lake" THEN 1 ELSE 0]

InitWater ==
    /\ WaterInputs
    /\ dpc = "start"
    /\ distance = <<>>
    /\ dqueue = <<>>
    /\ heightMap = <<>>
    /\ settings = <<>>
    /\ biome = <<>>
    /\ CitiesLocalIdle
    /\ BiomesLocalIdle
    /\ FlowIdle
    /\ RoadsIdle
    /\ WorldIdle
    /\ RngIdle
    /\ AuxIdle
    /\ LakesIdle
    /\ MaskIdle

\* calculateWaterDistance up to the search loop
WaterDistanceInit ==
    /\ dpc = "start"
    /\ LET sources == WaterCells(landMask, rivers, lakeMask, 0, width * height)
       IN  /\ distance' = [i \in Cells(width, height) |->
                              IF \E n \in 1 .. Len(sources) : sources[n] = i
                              THEN [a |-> 0, b |-> 0] ELSE Infinity]
           /\ dqueue' = [n \in 1 .. Len(sources) |->
                            [idx |-> sources[n], dist |-> [a |-> 0, b |-> 0]]]
    /\ dpc' = "bfs"
    /\ UNCHANGED <<gridVars, flowVars, cityInputs, cityVars, roadVars, worldVars, rngVars,
                   biomeVars, lakeVars, maskVars, auxVars>>

\* One iteration of while (queue.length > 0)
WaterDistanceStep ==
    /\ dpc = "bfs"
    /\ dqueue # <<>>
    /\ LET e == Head(dqueue)
       IN  IF DistLess(distance[e.idx], e.dist)
           THEN /\ dqueue' = Tail(dqueue)
                /\ UNCHANGED distance
           ELSE LET r == Relax(distance, Tail(dqueue), e.idx, e.dist, 0, width, height)
                IN  /\ distance' = r[1]
                    /\ dqueue' = r[2]
    /\ UNCHANGED <<gridVars, flowVars, cityInputs, cityVars, roadVars, worldVars, rngVars,
                   biomeVars, lakeVars, maskVars, dpc, auxVars>>

\* Normalize to 0-1 range; return distance
WaterDistanceReturn ==
    /\ dpc = "bfs"
    /\ dqueue = <<>>
    /\ distance' = Normalize(distance,
                             MaxDist(distance, 0, width * height, [a |-> 0, b |-> 0]))
    /\ dpc' = "done"
    /\ UNCHANGED <<gridVars, flowVars, cityInputs, cityVars, roadVars, worldVars, rngVars,
                   biomeVars, lakeVars, maskVars, dqueue, auxVars>>

NextWater ==
    \/ WaterDistanceInit
    \/ WaterDistanceStep
    \/ WaterDistanceReturn

SpecWater == InitWater /\ [][NextWater]_vars

\* C14 as claimed: every value of the returned field lies in [0, 1], also on
\* a map without a water cell, and a value is 0 exactly on the ocean, river
\* and lake cells.
WaterDistanceRange ==
    dpc = "done" =>
        \A i \in Cells(width, height) :
            /\ distance[i].num # Infinity
            /\ ~DistLess(distance[i].num, [a |-> 0, b |-> 0])
            /\ ~DistLess(distance[i].den, distance[i].num)
            /\ (distance[i].num = [a |-> 0, b |-> 0])
                   <=> (landMask[i] = 0 \/ rivers[i] > 0 \/ lakeMask[i] = 1)

\* ------------------------------------------- hydrology.ts: detectLakes
\* Heights are in hundredths here: the fill admits heights up to
\* lakeHeight + 0.02.
maxLakeSize == 100

\* Add neighbors: the land neighbours of current that are not visited, in
\* the order of the directions from d on.
RECURSIVE LakeNeighbors(_, _, _, _, _, _)
LakeNeighbors(current, visited, lm, w, h, d) ==
    IF d > 7 THEN <<>>
    ELSE LET nx == XOf(current, w) + DX[d + 1]
             ny == YOf(current, w) + DY[d + 1]
         IN  (IF InBounds(nx, ny, w, h) /\ lm[ny * w + nx] = 1 /\ (ny * w + nx) \notin visited
              THEN <<ny * w + nx>> ELSE <<>>)
             \o LakeNeighbors(current, visited, lm, w, h, d + 1)

\* while (queue.length > 0 && lakeSize < maxLakeSize): the lake mask the
\* flood fill of one sink leaves.
RECURSIVE FloodFill(_, _, _, _, _, _, _, _, _)
FloodFill(q, visited, lk, lakeHeight, lakeSize, hm, lm, w, h) ==
    IF q = <<>> \/ lakeSize >= maxLakeSize THEN lk
    ELSE LET current == Head(q)
         IN  IF current \in visited
             THEN FloodFill(Tail(q), visited, lk, lakeHeight, lakeSize, hm, lm, w, h)
             ELSE IF hm[current] <= lakeHeight + 2
                  THEN FloodFill(Tail(q) \o LakeNeighbors(current, visited \cup {current},
                                                          lm, w, h, 0),
                                 visited \cup {current}, [lk EXCEPT ![current] = 1],
                                 lakeHeight, lakeSize + 1, hm, lm, w, h)
                  ELSE FloodFill(Tail(q), visited \cup {current}, lk, lakeHeight,
                                 lakeSize, hm, lm, w, h)

\* for (let y = 1; y < height - 1; y++) for (let x = 1; x < width - 1; x++):
\* the cells the loops visit, in their order, from the cell i on.
RECURSIVE SinkScan(_, _, _)
SinkScan(i, w, h) ==
    IF i >= w * h THEN <<>>
    ELSE (IF XOf(i, w) >= 1 /\ XOf(i, w) < w - 1 /\ YOf(i, w) >= 1 /\ YOf(i, w) < h - 1
          THEN <<i>> ELSE <<>>)
         \o SinkScan(i + 1, w, h)

\* Input terrains: heights of two levels, all land or one ocean cell, and
\* the flow directions calculateFlowDirection gives them.
LakeInputs ==
    /\ width = LakeWidth
    /\ height = LakeHeight
    /\ heightMap \in [Cells(LakeWidth, LakeHeight) -> {50, 53}]
    /\ \E o \in Cells(LakeWidth, LakeHeight) \cup {-1} :
           landMask = [c \in Cells(LakeWidth, LakeHeight) |-> IF c = o THEN 0 ELSE 1]
    /\ flowDir = calculateFlowDirection(heightMap, landMask, LakeWidth, LakeHeight)
    /\ \E en \in BOOLEAN : settings = [hydrology |-> [lakeFillEnabled |-> en]]

InitLakes ==
    /\ LakeInputs
    /\ lpc = "start"
    /\ lidx = 0
    /\ fill = <<>>
    /\ lakeMask = <<>>
    /\ fpc = "idle"
    /\ flowAccum = <<>>
    /\ inDegree = <<>>
    /\ queue = <<>>
    /\ taken = <<>>
    /\ biome = <<>>
    /\ rivers = <<>>
    /\ CitiesLocalIdle
    /\ BiomesLocalIdle
    /\ WaterIdle
    /\ MaskIdle
    /\ RoadsIdle
    /\ WorldIdle
    /\ RngIdle
    /\ AuxIdle

\* const lakeMask = new Uint8Array(size); if (!lakeFillEnabled) return lakeMask
DetectLakesStart ==
    /\ lpc = "start"
    /\ lakeMask' = [c \in Cells(width, height) |-> 0]
    /\ lpc' = IF settings.hydrology.lakeFillEnabled THEN "sinks" ELSE "done"
    /\ UNCHANGED <<gridVars, flowVars, settings, biome, rivers, cityVars, roadVars,
                   worldVars, rngVars, bpc, temperature, moisture, bidx, bwrites, waterVars, maskVars, lidx, fill,
                   auxVars>>

\* One iteration of the loops over y and x
LakeSink ==
    /\ lpc = "sinks"
    /\ lidx < Len(SinkScan(0, width, height))
    /\ LET idx == SinkScan(0, width, height)[lidx + 1]
       IN  lakeMask' =
               IF landMask[idx] = 0 \/ flowDir[idx] >= 0 THEN lakeMask
               ELSE FloodFill(<<idx>>, {}, lakeMask, heightMap[idx], 0,
                              heightMap, landMask, width, height)
    /\ lidx' = lidx + 1
    /\ UNCHANGED <<gridVars, flowVars, settings, biome, rivers, cityVars, roadVars,
                   worldVars, rngVars, bpc, temperature, moisture, bidx, bwrites, waterVars, maskVars, lpc, fill,
                   auxVars>>

\* return lakeMask
ReturnLakes ==
    /\ lpc = "sinks"
    /\ lidx = Len(SinkScan(0, width, height))
    /\ lpc' = "done"
    /\ UNCHANGED <<gridVars, flowVars, cityInputs, cityVars, roadVars, worldVars, rngVars,
                   biomeVars, waterVars, maskVars, lidx, fill, auxVars>>

NextLakes ==
    \/ DetectLakesStart
    \/ LakeSink
    \/ ReturnLakes

SpecLakes == InitLakes /\ [][NextLakes]_vars

\* C20 as claimed: when detectLakes returns with lakeFillEnabled, every land
\* cell without outflow is marked in the lake mask, on the outermost rows and
\* columns too; without lakeFillEnabled the lake mask is all zero.
LakeSeeding ==
    lpc = "done" =>
        \A c \in Cells(width, height) :
            IF settings.hydrology.lakeFillEnabled
            THEN (landMask[c] = 1 /\ flowDir[c] < 0) => lakeMask[c] = 1
            ELSE lakeMask[c] = 0

\* --------------------------------- continents.ts: generateContinentMask
\* Seed coordinates and radii are in halves of a cell (x2, y2, r2), sea
\* level, noise and amplitude in tenths.  With maskFalloff = 2 the influence
\* 1 - (dist / radius)^2 of a seed is the quotient (r2^2 - d2) / r2^2, d2
\* being the squared distance in quarters; a quotient is <<num, den>>.

\* influence = Math.max(0, 1 - Math.pow(normalizedDist, maskFalloff))
Influence(x, y, seed) ==
    LET d2 == (2 * x - seed.x2) * (2 * x - seed.x2) + (2 * y - seed.y2) * (2 * y - seed.y2)
    IN  <<Max(0, seed.r2 * seed.r2 - d2), seed.r2 * seed.r2>>

\* p > q on quotients with positive denominators
QuotGreater(p, q) == p[1] * q[2] > q[1] * p[2]

\* The loop over the seeds for one cell, from the seed n on:
\* <<maxInfluence, maxId>>.
RECURSIVE MaxInfluence(_, _, _, _, _, _)
MaxInfluence(x, y, sds, n, maxInfluence, maxId) ==
    IF n > Len(sds) THEN <<maxInfluence, maxId>>
    ELSE LET influence == Influence(x, y, sds[n])
         IN  IF QuotGreater(influence, maxInfluence)
             THEN MaxInfluence(x, y, sds, n + 1, influence, sds[n].id)
             ELSE MaxInfluence(x, y, sds, n + 1, maxInfluence, maxId)

\* coastNoise = fbm(...) * coastlineNoiseAmp: fbm averages values of
\* noise2DNormalized, which lie in [0, 1]; fbmValue is 0 or 1 here.
CoastNoiseMutSigned(fbmValue, amp) == (2 * fbmValue - 1) * amp
CoastNoise(fbmValue, amp) == fbmValue * amp

\* if (totalValue > seaLevel), totalValue = continentInfluence[idx] + coastNoise
AboveSea(influence, noise, seaLevel) ==
    10 * influence[1] + noise * influence[2] > seaLevel * influence[2]

\* Only create islands near existing land: a land cell within checkRadius
\* in x and in y.
nearLand(lm, x, y, w, h) ==
    \E dy \in -checkRadius .. checkRadius, dx \in -checkRadius .. checkRadius :
        /\ InBounds(x + dx, y + dy, w, h)
        /\ lm[(y + dy) * w + (x + dx)] = 1

\* The seeds of the inputs: centres between and on cells, radii below and
\* above the distance to the nearest cell.
SeedChoices ==
    {[x2 |-> x, y2 |-> y, r2 |-> r] : x \in {1, 2, 5}, y \in {0, 1}, r \in {1, 4}}

SeedLists ==
    {<<[x2 |-> a.x2, y2 |-> a.y2, r2 |-> a.r2, id |-> 1]>> : a \in SeedChoices}
    \cup {<<[x2 |-> a.x2, y2 |-> a.y2, r2 |-> a.r2, id |-> 1],
            [x2 |-> b.x2, y2 |-> b.y2, r2 |-> b.r2, id |-> 2]>> :
              a \in SeedChoices, b \in {c \in SeedChoices : c.x2 = 5 /\ c.y2 = 1}}

MaskSettings ==
    {[map |-> [seaLevel |-> 4],
      continents |-> [maskFalloff |-> 2, coastlineNoiseAmp |-> amp,
                      archipelagoChance |-> ch]] : amp \in {0, 2}, ch \in {0, 1}}

InitMask ==
    /\ width = MaskWidth
    /\ height = MaskHeight
    /\ seeds \in SeedLists
    /\ settings \in MaskSettings
    /\ mpc = "start"
    /\ landMask = <<>>
    /\ continentInfluence = <<>>
    /\ continentId = <<>>
    /\ midx = 0
    /\ landBefore = <<>>
    /\ heightMap = <<>>
    /\ biome = <<>>
    /\ rivers = <<>>
    /\ CitiesLocalIdle
    /\ BiomesIdle
    /\ WaterIdle
    /\ LakesIdle
    /\ FlowIdle
    /\ RoadsIdle
    /\ WorldIdle
    /\ RngIdle
    /\ AuxIdle

\* Calculate continent influence for each cell
ContinentInfluence ==
    /\ mpc = "start"
    /\ LET best == [idx \in Cells(width, height) |->
                       MaxInfluence(XOf(idx, width), YOf(idx, width), seeds, 1, <<0, 1>>, 0)]
       IN  /\ continentInfluence' = [idx \in Cells(width, height) |-> best[idx][1]]
           /\ continentId' = [idx \in Cells(width, height) |-> best[idx][2]]
    /\ mpc' = "coast"
    /\ UNCHANGED <<gridVars, flowVars, cityInputs, cityVars, roadVars, worldVars, rngVars,
                   biomeVars, waterVars, lakeVars, seeds, midx, landBefore, auxVars>>

\* Add coastline noise and determine land.  The fbm values of the cells are
\* all 0, all 1, or 1 in one cell.
CoastlineThreshold ==
    /\ mpc = "coast"
    /\ \E f \in {[c \in Cells(width, height) |-> IF c = j THEN 1 ELSE v] :
                     j \in Cells(width, height), v \in {0, 1}} :
           landMask' = [idx \in Cells(width, height) |->
                           IF AboveSea(continentInfluence[idx],
                                       CoastNoise(f[idx], settings.continents.coastlineNoiseAmp),
                                       settings.map.seaLevel)
                           THEN 1 ELSE 0]
    /\ landBefore' = landMask'
    /\ mpc' = IF settings.continents.archipelagoChance > 0 THEN "islands" ELSE "return"
    /\ UNCHANGED <<width, height, heightMap, flowVars, cityInputs, cityVars, roadVars,
                   worldVars, rngVars, biomeVars, waterVars, lakeVars, seeds, continentInfluence,
                   continentId, midx, auxVars>>

\* One iteration of the archipelago loops: the cell idx.  island is the
\* outcome of islandValue > 1 - archipelagoChance * 0.5, chance that of
\* prng.chance(archipelagoChance).
ArchipelagoCell ==
    /\ mpc = "islands"
    /\ midx < width * height
    /\ \E island \in BOOLEAN, chance \in BOOLEAN :
           IF /\ landMask[midx] = 0
              /\ island
              /\ nearLand(landMask, XOf(midx, width), YOf(midx, width), width, height)
              /\ chance
           THEN /\ landMask' = [landMask EXCEPT ![midx] = 1]
                /\ continentId' = [continentId EXCEPT ![midx] =
                       IF continentId[Max(0, midx - 1)] # 0
                       THEN continentId[Max(0, midx - 1)] ELSE 1]
           ELSE UNCHANGED <<landMask, continentId>>
    /\ midx' = midx + 1
    /\ UNCHANGED <<width, height, heightMap, flowVars, cityInputs, cityVars, roadVars,
                   worldVars, rngVars, biomeVars, waterVars, lakeVars, mpc, seeds,
                   continentInfluence, landBefore, auxVars>>

\* return { landMask, continentId }
ReturnMask ==
    /\ \/ mpc = "return"
       \/ mpc = "islands" /\ midx = width * height
    /\ mpc' = "done"
    /\ UNCHANGED <<gridVars, flowVars, cityInputs, cityVars, roadVars, worldVars, rngVars,
                   biomeVars, waterVars, lakeVars, seeds, continentInfluence,
                   continentId, midx, landBefore, auxVars>>

NextMask ==
    \/ ContinentInfluence
    \/ CoastlineThreshold
    \/ ArchipelagoCell
    \/ ReturnMask

SpecMask == InitMask /\ [][NextMask]_vars

\* The cells within the radius of a seed, and those where the influence of
\* the seed alone exceeds the sea level.
WithinRadius(seed) ==
    {c \in Cells(width, height) :
        Influence(XOf(c, width), YOf(c, width), seed)[1] > 0
        \/ (2 * XOf(c, width) - seed.x2) * (2 * XOf(c, width) - seed.x2)
           + (2 * YOf(c, width) - seed.y2) * (2 * YOf(c, width) - seed.y2)
               = seed.r2 * seed.r2}

Core(seed) ==
    {c \in Cells(width, height) :
        AboveSea(Influence(XOf(c, width), YOf(c, width), seed), 0, settings.map.seaLevel)}

\* C16 as claimed: with seaLevel = 0.4 the land mask has a land cell within
\* the radius of every seed, and every cell whose influence exceeds the sea
\* level is land.
LandCoverageAnySeed ==
    mpc \in {"islands", "return", "done"} =>
        /\ \A n \in 1 .. Len(seeds) : \E c \in WithinRadius(seeds[n]) : landMask[c] = 1
        /\ \A c \in Cells(width, height) :
               AboveSea(continentInfluence[c], 0, settings.map.seaLevel) => landMask[c] = 1

\* C16 as amended: every cell whose influence exceeds the sea level is
\* land, and a seed that has a cell where its influence exceeds the sea
\* level has a land cell within its radius.
LandCoverage ==
    mpc \in {"islands", "return", "done"} =>
        /\ \A n \in 1 .. Len(seeds) :
               Core(seeds[n]) # {} => \E c \in WithinRadius(seeds[n]) : landMask[c] = 1
        /\ \A c \in Cells(width, height) :
               AboveSea(continentInfluence[c], 0, settings.map.seaLevel) => landMask[c] = 1

\* A mask has been returned for a seed whose radius holds cells above and
\* cells below the sea level, with coastline noise at work.
LandCoverageWitness ==
    /\ mpc = "done"
    /\ Len(seeds) = 1
    /\ settings.continents.coastlineNoiseAmp > 0
    /\ Core(seeds[1]) # {}
    /\ \E c \in WithinRadius(seeds[1]) \ Core(seeds[1]) : landBefore[c] = 0
    /\ \E c \in WithinRadius(seeds[1]) \ Core(seeds[1]) : landBefore[c] = 1

\* C17 as claimed: every cell the archipelago pass turns from water into
\* land lies within the search radius, in x and in y, of a cell that was
\* land before the pass started.
ArchipelagoLocality ==
    mpc \in {"islands", "done"} =>
        \A c \in Cells(width, height) :
            (landMask[c] = 1 /\ landBefore[c] = 0)
                => nearLand(landBefore, XOf(c, width), YOf(c, width), width, height)

\* ------------------------------------------------------------- class PRNG
\* The state of a generator is a number that next() only ever reads through
\* 32-bit integer operations (^, |, >>>, Math.imul), each of which takes its
\* operand modulo 2^32.  The model keeps the state modulo 2^32, as a pair
\* <<high half, low half>> of 16-bit halves.
Half == 2^16
U32(n) == <<n \div Half, n % Half>>

RECURSIVE BitXor(_, _, _)
BitXor(a, b, n) ==
    IF n = 0 THEN 0
    ELSE (((a % 2) + (b % 2)) % 2) + (2 * BitXor(a \div 2, b \div 2, n - 1))

RECURSIVE BitOr(_, _, _)
BitOr(a, b, n) ==
    IF n = 0 THEN 0
    ELSE (IF (a % 2) = 1 \/ (b % 2) = 1 THEN 1 ELSE 0) + (2 * BitOr(a \div 2, b \div 2, n - 1))

\* a ^ b, a | b, a >>> n (0 < n < 16) and a + b modulo 2^32
Xor32(a, b) == <<BitXor(a[1], b[1], 16), BitXor(a[2], b[2], 16)>>
Or32(a, b) == <<BitOr(a[1], b[1], 16), BitOr(a[2], b[2], 16)>>
Shr32(a, n) == <<a[1] \div (2^n), ((a[1] % (2^n)) * (2^(16 - n))) + (a[2] \div (2^n))>>
Add32(a, b) == <<(a[1] + b[1] + ((a[2] + b[2]) \div Half)) % Half, (a[2] + b[2]) % Half>>

\* the product of two 16-bit halves, in full
Mul16(a, b) ==
    LET x == (a % 256) * b
        y == (a \div 256) * b
    IN  Add32(U32(x), <<y \div 256, (y % 256) * 256>>)

\* Math.imul(a, b): the low 32 bits of the product
imul(a, b) ==
    Add32(Mul16(a[2], b[2]), <<(Mul16(a[1], b[2])[2] + Mul16(a[2], b[1])[2]) % Half, 0>>)

\* this.state += 0x6D2B79F5
Increment == <<27947, 31221>>
Advance(state) == Add32(state, Increment)

\* The integer (t ^ t >>> 14) >>> 0 that next() computes from the advanced
\* state; next() returns it divided by 4294967296.
Mulberry(state) ==
    LET t0 == state
        t1 == imul(Xor32(t0, Shr32(t0, 15)), Or32(t0, U32(1)))
        t2 == Xor32(t1, Add32(t1, imul(Xor32(t1, Shr32(t1, 7)), Or32(t1, U32(61)))))
    IN  Xor32(t2, Shr32(t2, 14))

\* Math.floor(u / 4294967296 * 2147483647) for the integer u of a draw.  The
\* exact product is u/2 - u/2^32; the double multiplication rounds it to 53
\* bits, which reaches the next integer only for an odd u less than 512
\* above 2^31.
forkSeed(u) ==
    LET h == (u[1] * 32768) + (u[2] \div 2)
    IN  IF u = U32(0) THEN 0
        ELSE IF (u[2] % 2) = 0 THEN h - 1
        ELSE IF u[1] < 32768 THEN h
        ELSE IF u[1] = 32768 /\ u[2] < 512 THEN h
        ELSE h - 1

\* new PRNG(seed) for a number: the state is the seed, and 1 for the seed 0
constructorMutKeepZero(seed) == U32(seed)
constructor(seed) == IF seed = 0 THEN U32(1) ELSE U32(seed)

\* The seeds of the generators the model starts from: the hashes of the
\* seed strings, 0, and a seed whose first draw is 2 / 4294967296.
NumberSeeds == {0, 1508650423}
RootSeeds == {hashString(str, 1, 0) : str \in SeedStrings} \cup NumberSeeds

MaxGenerators == 3      \* PRNG objects alive at once
MaxDraws == 4           \* method calls in one behaviour

InitPRNG ==
    /\ \E seed \in RootSeeds : generators = <<constructor(seed)>>
    /\ parentOf = <<0>>
    /\ lastOp = <<>>
    /\ width = 0
    /\ height = 0
    /\ heightMap = <<>>
    /\ landMask = <<>>
    /\ FlowIdle
    /\ CitiesIdle
    /\ RoadsIdle
    /\ WorldIdle
    /\ BiomesIdle
    /\ WaterIdle
    /\ LakesIdle
    /\ MaskIdle
    /\ AuxIdle

OpCount == IF lastOp = <<>> THEN 0 ELSE lastOp.count

\* g.next()
PrngNext(g) ==
    /\ OpCount < MaxDraws
    /\ generators' = [generators EXCEPT ![g] = Advance(@)]
    /\ lastOp' = [op |-> "next", on |-> g, before |-> generators,
                  value |-> Mulberry(Advance(generators[g])), count |-> OpCount + 1]
    /\ UNCHANGED <<gridVars, flowVars, cityInputs, cityVars, roadVars, worldVars,
                   biomeVars, waterVars, lakeVars, maskVars, parentOf, auxVars>>

\* g.fork(): new PRNG(Math.floor(this.next() * 2147483647))
PrngFork(g) ==
    /\ OpCount < MaxDraws
    /\ Len(generators) < MaxGenerators
    /\ LET state == Advance(generators[g])
           value == Mulberry(state)
       IN  /\ generators' = Append([generators EXCEPT ![g] = state],
                                   constructor(forkSeed(value)))
           /\ lastOp' = [op |-> "fork", on |-> g, before |-> generators,
                         value |-> value, count |-> OpCount + 1]
    /\ parentOf' = Append(parentOf, g)
    /\ UNCHANGED <<gridVars, flowVars, cityInputs, cityVars, roadVars, worldVars,
                   biomeVars, waterVars, lakeVars, maskVars, auxVars>>

NextPRNG ==
    \/ \E g \in 1 .. Len(generators) : PrngNext(g)
    \/ \E g \in 1 .. Len(generators) : PrngFork(g)

SpecPRNG == InitPRNG /\ [][NextPRNG]_vars

\* C15: fork() leaves the parent in the state one next() would leave it in;
\* the child starts from a state that is the constructor's image of the one
\* draw fork() made, and that state is never zero; fork() changes no other
\* generator; and a draw on a child leaves its parent's state as it was, a
\* draw on a parent leaves the states of its children as they were.
ForkFrame ==
    lastOp # <<>> =>
        LET g == lastOp.on
            before == lastOp.before
        IN  /\ lastOp.op = "fork" =>
                /\ generators[g] = Advance(before[g])
                /\ Len(generators) = Len(before) + 1
                /\ generators[Len(generators)] # U32(0)
                /\ LET seed == forkSeed(lastOp.value)
                   IN  /\ seed \in 0 .. 2147483646
                       /\ generators[Len(generators)] = IF seed = 0 THEN U32(1) ELSE U32(seed)
                /\ \A q \in 1 .. Len(before) : q # g => generators[q] = before[q]
            /\ lastOp.op = "next" =>
                /\ generators[g] = Advance(before[g])
                /\ \A q \in 1 .. Len(before) :
                       (parentOf[q] = g \/ parentOf[g] = q) => generators[q] = before[q]

\* A generator whose draw gives the seed 0 has forked, and a draw has since
\* been made on the child, which by then has a child of its own.
ForkFrameWitness ==
    /\ lastOp # <<>>
    /\ lastOp.op = "next"
    /\ parentOf[lastOp.on] # 0
    /\ \E q \in 1 .. Len(generators) : parentOf[q] = lastOp.on
    /\ forkSeed(Mulberry(generators[1])) = 0
    /\ lastOp.on = 2

\* ------------------------------------------- cities.ts: findPath, route cost
\* Input terrains of the route searches: flat land at level 5 over a sea level
\* of 4, with forest of intensity 85 (a third of 255) in the cell c.
PathTerrain(c) ==
    /\ width = RoadWidth
    /\ height = RoadHeight
    /\ landMask = [d \in Cells(RoadWidth, RoadHeight) |-> 1]
    /\ heightMap = [d \in Cells(RoadWidth, RoadHeight) |-> 5]
    /\ forest = [d \in Cells(RoadWidth, RoadHeight) |-> IF d = c THEN 85 ELSE 0]

PathInputs ==
    /\ \E c \in Cells(RoadWidth, RoadHeight) : PathTerrain(c)
    /\ cities \in {cs \in RoadCityLists(landMask, width, height) : Len(cs) = 2}
    /\ settings \in RoadSettings
    /\ biome = <<>>
    /\ rivers = <<>>
    /\ cpc = "done"
    /\ scores = <<>>
    /\ scored = <<>>
    /\ placed = {}
    /\ cityI = 0
    /\ sampleS = 0
    /\ bestIdx = -1
    /\ bestScore = 0

InitPaths == PathInputs /\ RoadsStart /\ FlowIdle /\ WorldIdle /\ StagesIdle

SpecPaths == InitPaths /\ [][NextRoads]_vars

\* The cells one move away from the cell c: the eight neighbours in bounds.
Adjacent(c, w, h) ==
    {d \in Cells(w, h) :
        /\ d # c
        /\ Abs(XOf(d, w) - XOf(c, w)) <= 1
        /\ Abs(YOf(d, w) - YOf(c, w)) <= 1}

\* The least cost of a route to the cell c given the least costs found so
\* far, with the move cost getCost of findPath; -1 stands for no route found.
BestCost(costs, c, hm, lm, fo, st, w, h) ==
    LET all == {costs[d] + getCost(XOf(c, w), YOf(c, w), XOf(d, w), YOf(d, w),
                                   hm, lm, fo, st, w) :
                d \in {e \in Adjacent(c, w, h) : costs[e] # -1}}
               \cup (IF costs[c] # -1 THEN {costs[c]} ELSE {})
    IN  IF all = {} THEN -1
        ELSE CHOOSE g \in all : \A g2 \in all : g <= g2

\* One round of relaxation over the cells c, c + 1, ...
RECURSIVE RelaxRoutes(_, _, _, _, _, _, _, _)
RelaxRoutes(costs, c, hm, lm, fo, st, w, h) ==
    IF c >= w * h THEN costs
    ELSE RelaxRoutes([costs EXCEPT ![c] = BestCost(costs, c, hm, lm, fo, st, w, h)],
                     c + 1, hm, lm, fo, st, w, h)

\* Up to k rounds of relaxation, stopping at the round that changes nothing:
\* the least total move cost of the routes of at most k more moves.
RECURSIVE RouteCosts(_, _, _, _, _, _, _, _)
RouteCosts(costs, k, hm, lm, fo, st, w, h) ==
    IF k = 0 THEN costs
    ELSE LET relaxed == RelaxRoutes(costs, 0, hm, lm, fo, st, w, h)
         IN  IF relaxed = costs THEN costs
             ELSE RouteCosts(relaxed, k - 1, hm, lm, fo, st, w, h)

\* The minimum total move cost among all routes between two cities: a
\* cheapest route visits no cell twice, so it has fewer moves than cells.
MinRouteCost(from, to, hm, lm, fo, st, w, h) ==
    RouteCosts([c \in Cells(w, h) |-> IF c = from.y * w + from.x THEN 0 ELSE -1],
               w * h - 1, hm, lm, fo, st, w, h)[to.y * w + to.x]

\* C18 as claimed: for every road built, the cost g of the goal when findPath
\* selects it is the minimum total move cost among all 8-directional routes
\* between the two cities.
ShortestPaths ==
    \A n \in 1 .. Len(roads) :
        LET from == CityOf(roads[n].fromCityId)
            to == CityOf(roads[n].toCityId)
        IN  findPath(from, to, heightMap, landMask, forest, settings, width, height).g
                = MinRouteCost(from, to, heightMap, landMask, forest, settings, width, height)

\* ------------------------- hydrology.ts: detectLakes, the flood fill by steps
\* The same function with one action for each iteration of the while loop of
\* the flood fill, on a grid with more than maxLakeSize cells.
FillWidth == 35         \* grid of the flood fill inputs
FillHeight == 3

\* Input terrains: all land but for an ocean cell at column o of the middle
\* row; heights 0.50, 0.51, 0.52 repeating along x, with a ridge of height
\* 0.53 in column r.
FillTerrain(o, r) ==
    /\ width = FillWidth
    /\ height = FillHeight
    /\ landMask = [c \in Cells(FillWidth, FillHeight) |->
                      IF XOf(c, FillWidth) = o /\ YOf(c, FillWidth) = 1 THEN 0 ELSE 1]
    /\ heightMap = [c \in Cells(FillWidth, FillHeight) |->
                       IF XOf(c, FillWidth) = r THEN 53 ELSE 50 + (XOf(c, FillWidth) % 3)]
    /\ flowDir = calculateFlowDirection(heightMap, landMask, FillWidth, FillHeight)

InitLakeFill ==
    /\ \E o \in {-1, 10}, r \in {-1, 20} : FillTerrain(o, r)
    /\ \E en \in BOOLEAN : settings = [hydrology |-> [lakeFillEnabled |-> en]]
    /\ lpc = "start"
    /\ lidx = 0
    /\ fill = <<>>
    /\ lakeMask = <<>>
    /\ fpc = "idle"
    /\ flowAccum = <<>>
    /\ inDegree = <<>>
    /\ queue = <<>>
    /\ taken = <<>>
    /\ biome = <<>>
    /\ rivers = <<>>
    /\ CitiesLocalIdle
    /\ BiomesLocalIdle
    /\ WaterIdle
    /\ MaskIdle
    /\ RoadsIdle
    /\ WorldIdle
    /\ RngIdle
    /\ AuxIdle

\* lakeSize < maxLakeSize fails
LakeFullMutLate(lakeSize) == lakeSize > maxLakeSize
LakeFull(lakeSize) == lakeSize >= maxLakeSize

\* One iteration of the loops over y and x up to the while loop: a cell that
\* is water or has outflow is passed over, a sink starts a flood fill.
FillStart ==
    /\ lpc = "sinks"
    /\ lidx < Len(SinkScan(0, width, height))
    /\ LET idx == SinkScan(0, width, height)[lidx + 1]
       IN  IF landMask[idx] = 0 \/ flowDir[idx] >= 0
           THEN /\ lidx' = lidx + 1
                /\ UNCHANGED <<lpc, fill>>
           ELSE /\ fill' = [seed |-> idx, queue |-> <<idx>>, visited |-> {},
                            lakeHeight |-> heightMap[idx], lakeSize |-> 0,
                            marked |-> <<>>]
                /\ lpc' = "fill"
                /\ UNCHANGED lidx
    /\ UNCHANGED <<gridVars, flowVars, cityInputs, cityVars, roadVars, worldVars, rngVars,
                   biomeVars, waterVars, maskVars, auxVars>>

\* One iteration of while (queue.length > 0 && lakeSize < maxLakeSize)
FillStep ==
    /\ lpc = "fill"
    /\ fill.queue # <<>>
    /\ ~LakeFull(fill.lakeSize)
    /\ LET current == Head(fill.queue)
           visited == fill.visited \cup {current}
       IN  IF current \in fill.visited
           THEN /\ fill' = [fill EXCEPT !.queue = Tail(@)]
                /\ UNCHANGED lakeMask
           ELSE IF heightMap[current] <= fill.lakeHeight + 2
                THEN /\ lakeMask' = [lakeMask EXCEPT ![current] = 1]
                     /\ fill' = [fill EXCEPT
                                    !.queue = Tail(@) \o LakeNeighbors(current, visited, landMask,
                                                                       width, height, 0),
                                    !.visited = visited,
                                    !.lakeSize = @ + 1,
                                    !.marked = Append(@, current)]
                ELSE /\ fill' = [fill EXCEPT !.queue = Tail(@), !.visited = visited]
                     /\ UNCHANGED lakeMask
    /\ UNCHANGED <<gridVars, flowVars, settings, biome, rivers, cityVars, roadVars,
                   worldVars, rngVars, bpc, temperature, moisture, bidx, bwrites, waterVars,
                   maskVars, lpc, lidx, auxVars>>

\* The while loop ends: on to the next cell of the loops over y and x.
FillEnd ==
    /\ lpc = "fill"
    /\ fill.queue = <<>> \/ LakeFull(fill.lakeSize)
    /\ fill' = <<>>
    /\ lpc' = "sinks"
    /\ lidx' = lidx + 1
    /\ UNCHANGED <<gridVars, flowVars, cityInputs, cityVars, roadVars, worldVars, rngVars,
                   biomeVars, waterVars, maskVars, auxVars>>

NextLakeFill ==
    \/ DetectLakesStart
    \/ FillStart
    \/ FillStep
    \/ FillEnd
    \/ ReturnLakes

SpecLakeFill == InitLakeFill /\ [][NextLakeFill]_vars

\* C21: a flood fill marks at most 100 cells; every cell it marks is a land
\* cell no higher than the seed's height plus 0.02, marked once, and, unless
\* it is the seed, an 8-neighbour of a cell the same fill marked before it;
\* and no water cell is marked in the lake mask.
LakeFillBounds ==
    /\ lakeMask # <<>> =>
           \A c \in Cells(width, height) : lakeMask[c] = 1 => landMask[c] = 1
    /\ fill # <<>> =>
           /\ Len(fill.marked) <= 100
           /\ Cardinality({fill.marked[k] : k \in 1 .. Len(fill.marked)}) = Len(fill.marked)
           /\ \A k \in 1 .. Len(fill.marked) :
                  LET c == fill.marked[k]
                  IN  /\ landMask[c] = 1
                      /\ lakeMask[c] = 1
                      /\ heightMap[c] <= heightMap[fill.seed] + 2
                      /\ IF k = 1 THEN c = fill.seed
                         ELSE \E j \in 1 .. k - 1 :
                                  /\ Abs(XOf(fill.marked[j], width) - XOf(c, width)) <= 1
                                  /\ Abs(YOf(fill.marked[j], width) - YOf(c, width)) <= 1

\* A flood fill has stopped at 100 marked cells with cells left in its queue,
\* among them a cell it would have admitted, on a map with an ocean cell.
LakeFillBoundsWitness ==
    /\ fill # <<>>
    /\ Len(fill.marked) = 100
    /\ \E n \in 1 .. Len(fill.queue) :
           /\ fill.queue[n] \notin fill.visited
           /\ heightMap[fill.queue[n]] <= fill.lakeHeight + 2
    /\ \E c \in Cells(width, height) : landMask[c] = 0

\* ------------------------------------------- cities.ts: simplifyPath alone
MaxCoord == 3           \* path points have x in 0..MaxCoord and y 0 or MaxCoord
MaxPathLen == 5         \* input paths have up to MaxPathLen points

PathPoints == {[x |-> i, y |-> j] : i \in 0 .. MaxCoord, j \in {0, MaxCoord}}

InitSimplify ==
    /\ spc = "start"
    /\ spath \in UNION {[1 .. n -> PathPoints] : n \in 0 .. MaxPathLen}
    /\ simplified = <<>>
    /\ width = 0
    /\ height = 0
    /\ heightMap = <<>>
    /\ landMask = <<>>
    /\ FlowIdle
    /\ CitiesIdle
    /\ RoadsIdle
    /\ WorldIdle
    /\ BiomesIdle
    /\ WaterIdle
    /\ LakesIdle
    /\ MaskIdle
    /\ RngIdle
    /\ AStarIdle
    /\ WorkerIdle
    /\ HookIdle

\* return simplifyPath(path)
SimplifyPath ==
    /\ spc = "start"
    /\ simplified' = simplifyPath(spath)
    /\ spc' = "done"
    /\ UNCHANGED <<gridVars, flowVars, cityInputs, cityVars, roadVars, worldVars,
                   biomeVars, waterVars, lakeVars, maskVars, rngVars, spath, astarVars,
                   workerVars, hookVars>>

NextSimplify == SimplifyPath

SpecSimplify == InitSimplify /\ [][NextSimplify]_vars

\* The points of the path at the indexes in kept, in their order.
Pick(path, kept) ==
    [k \in 1 .. Cardinality(kept) |->
        path[CHOOSE i \in kept : Cardinality({j \in kept : j < i}) = k - 1]]

\* C24: the path returned is a subsequence of the input that keeps the
\* input's first and last points (so it has no more points than the input),
\* and every point dropped is within distance 2 of the line through the two
\* kept points around it (of that point, when the two coincide).
SimplifyContract ==
    spc = "done" =>
        \E kept \in SUBSET (1 .. Len(spath)) :
            /\ simplified = Pick(spath, kept)
            /\ Len(simplified) <= Len(spath)
            /\ spath # <<>> => 1 \in kept /\ Len(spath) \in kept
            /\ \A i \in (1 .. Len(spath)) \ kept :
                   LET lo == CHOOSE j \in kept : j < i /\ \A j2 \in kept : j2 < i => j2 <= j
                       hi == CHOOSE j \in kept : j > i /\ \A j2 \in kept : j2 > i => j2 >= j
                   IN  PerpNum(spath[i], spath[lo], spath[hi])
                           <= 4 * PerpDen(spath[lo], spath[hi])

\* A path has been simplified that was split at a far point, kept it, and
\* dropped a point at distance exactly 2 and a point on either side.
SimplifyContractWitness ==
    /\ spc = "done"
    /\ Len(spath) = 5
    /\ Len(simplified) = 3
    /\ simplified[2] = spath[3]
    /\ PerpNum(spath[2], spath[1], spath[3]) = 4 * PerpDen(spath[1], spath[3])
    /\ PerpNum(spath[4], spath[3], spath[5]) > 0

\* ------------------------------- cities.ts: findPath, the A* loop by iterations
AWidth == 3             \* the searched grids are 1..AWidth by 1..AHeight
AHeight == 2

\* Input terrains: land at level 5 over a sea level of 4, water in column a,
\* forest in row 0; the endpoints are any two in-bounds cells.
AStarInputs ==
    /\ \E w \in 1 .. AWidth, h \in 1 .. AHeight, a \in {-1, 1}, f \in {0, 255} :
          /\ width = w
          /\ height = h
          /\ landMask = [c \in Cells(w, h) |-> IF XOf(c, w) = a THEN 0 ELSE 1]
          /\ heightMap = [c \in Cells(w, h) |-> IF XOf(c, w) = a THEN 3 ELSE 5]
          /\ forest = [c \in Cells(w, h) |-> IF YOf(c, w) = 0 THEN f ELSE 0]
    /\ aFrom \in {[x |-> XOf(c, width), y |-> YOf(c, width)] : c \in Cells(width, height)}
    /\ aTo \in {[x |-> XOf(c, width), y |-> YOf(c, width)] : c \in Cells(width, height)}
    /\ settings = [map |-> [seaLevel |-> 4],
                   roads |-> [enabled |-> TRUE, maxConnectionsPerCity |-> 1,
                              costElevation |-> 4, costWater |-> 200, costForest |-> 3,
                              costMountain |-> 10]]

\* findPath up to its loop: openSet.set(startIdx, ...), iterations = 0
InitAStar ==
    /\ AStarInputs
    /\ apc = "loop"
    /\ aOpenSet = <<[idx |-> aFrom.y * width + aFrom.x, x |-> aFrom.x, y |-> aFrom.y, g |-> 0,
                     f |-> heuristic(aFrom.x, aFrom.y, aTo), parent |-> -1]>>
    /\ aClosedSet = {}
    /\ aIterations = 0
    /\ aResult = ""
    /\ aClosings = <<>>
    /\ FlowIdle
    /\ biome = <<>>
    /\ rivers = <<>>
    /\ CitiesLocalIdle
    /\ rpc = "idle"
    /\ pairs = <<>>
    /\ pairK = 0
    /\ roads = <<>>
    /\ connections = <<>>
    /\ attempts = <<>>
    /\ WorldIdle
    /\ BiomesIdle
    /\ WaterIdle
    /\ LakesIdle
    /\ MaskIdle
    /\ RngIdle
    /\ SimplifyIdle
    /\ WorkerIdle
    /\ HookIdle

\* One iteration of the while loop: the node with lowest f is the goal and
\* findPath returns the path, or the node is closed and its neighbors opened.
AStarIterate ==
    /\ apc = "loop"
    /\ aOpenSet # <<>> /\ WithinBudget(aIterations)
    /\ aIterations' = aIterations + 1
    /\ LET current == aOpenSet[LowestF(aOpenSet)]
       IN  IF current.idx = aTo.y * width + aTo.x
           THEN /\ aResult' = "path"
                /\ apc' = "done"
                /\ UNCHANGED <<aOpenSet, aClosedSet, aClosings>>
           ELSE /\ aClosedSet' = aClosedSet \cup {current.idx}
                /\ aOpenSet' = Neighbors(RemoveAt(aOpenSet, LowestF(aOpenSet)),
                                         aClosedSet \cup {current.idx}, current, 0, aTo,
                                         heightMap, landMask, forest, settings, width, height)
                /\ aClosings' = Append(aClosings, current.idx)
                /\ UNCHANGED <<apc, aResult>>
    /\ UNCHANGED <<gridVars, flowVars, cityInputs, cityVars, roadVars, worldVars,
                   biomeVars, waterVars, lakeVars, maskVars, rngVars, simplifyVars, workerVars,
                   hookVars, aFrom, aTo>>

\* The loop ends without the goal: return null
AStarFail ==
    /\ apc = "loop"
    /\ ~(aOpenSet # <<>> /\ WithinBudget(aIterations))
    /\ aResult' = "null"
    /\ apc' = "done"
    /\ UNCHANGED <<gridVars, flowVars, cityInputs, cityVars, roadVars, worldVars,
                   biomeVars, waterVars, lakeVars, maskVars, rngVars, simplifyVars, workerVars,
                   hookVars, aFrom, aTo, aOpenSet, aClosedSet, aIterations, aClosings>>

NextAStar ==
    \/ AStarIterate
    \/ AStarFail

SpecAStar == InitAStar /\ [][NextAStar]_vars

\* C28: the A* budget.  findPath makes at most maxIterations iterations and
\* then returns (a step is possible until it has); every iteration but the
\* one that selects the goal closes one cell, no cell is closed twice and a
\* closed cell is never in the open set again; the open set is not empty
\* while the loop runs, so that null is returned only with the budget used
\* up; and on a grid with fewer cells than the budget a path is returned.
AStarBudget ==
    /\ aIterations <= maxIterations
    /\ apc = "loop" => ENABLED NextAStar
    /\ Len(aClosings) = (IF aResult = "path" THEN aIterations - 1 ELSE aIterations)
    /\ Cardinality(aClosedSet) = Len(aClosings)
    /\ aClosedSet = {aClosings[n] : n \in 1 .. Len(aClosings)}
    /\ \A n \in 1 .. Len(aOpenSet) : aOpenSet[n].idx \notin aClosedSet
    /\ aOpenSet # <<>>
    /\ aResult = "null" => aIterations = maxIterations
    /\ (apc = "done" /\ width * height < maxIterations) => aResult = "path"

\* findPath has returned a path on a grid of two cells, after closing the
\* start cell.
AStarBudgetWitness ==
    /\ apc = "done"
    /\ width * height = 2
    /\ aFrom # aTo
    /\ aResult = "path"
    /\ aClosings = <<aFrom.y * width + aFrom.x>>

\* ------------------------------------------ generation.worker.ts: onmessage
\* The worker runs one handler at a time; the main thread posts requests
\* while a handler runs.  The generateWorld call of a handler is the calls
\* of the progress callback it makes and its outcome: it returns or throws.
MaxRequests == 3        \* the main thread posts up to MaxRequests requests
MaxProgress == 2        \* a generateWorld call reports progress up to MaxProgress times

InitWorker ==
    /\ inbox = <<>>
    /\ requested = 0
    /\ handling = <<>>
    /\ handled = <<>>
    /\ posted = <<>>
    /\ width = 0
    /\ height = 0
    /\ heightMap = <<>>
    /\ landMask = <<>>
    /\ FlowIdle
    /\ CitiesIdle
    /\ RoadsIdle
    /\ WorldIdle
    /\ BiomesIdle
    /\ WaterIdle
    /\ LakesIdle
    /\ MaskIdle
    /\ RngIdle
    /\ SimplifyIdle
    /\ AStarIdle
    /\ HookIdle

\* if (request.type === 'generate')
IsGenerateMutAny(request) == TRUE
IsGenerate(request) == request.type = "generate"

\* worker.postMessage(request) on the main thread: a WorkerRequest
PostRequest ==
    /\ requested < MaxRequests
    /\ \E type \in {"generate", "cancel"} :
          inbox' = Append(inbox, [type |-> type, id |-> requested + 1])
    /\ requested' = requested + 1
    /\ UNCHANGED <<gridVars, flowVars, cityInputs, cityVars, roadVars, worldVars,
                   biomeVars, waterVars, lakeVars, maskVars, rngVars, simplifyVars, astarVars,
                   hookVars, handling, handled, posted>>

\* self.onmessage starts for the next request: a generate request enters
\* generateWorld, any other request ends the handler at once.
OnMessage ==
    /\ handling = <<>>
    /\ inbox # <<>>
    /\ inbox' = Tail(inbox)
    /\ IF IsGenerate(Head(inbox))
       THEN /\ handling' = [request |-> Head(inbox), reports |-> 0]
            /\ UNCHANGED handled
       ELSE /\ handled' = Append(handled, Head(inbox))
            /\ UNCHANGED handling
    /\ UNCHANGED <<gridVars, flowVars, cityInputs, cityVars, roadVars, worldVars,
                   biomeVars, waterVars, lakeVars, maskVars, rngVars, simplifyVars, astarVars,
                   hookVars, requested, posted>>

\* The progress callback: self.postMessage({ type: 'progress', stage, percent })
PostProgress ==
    /\ handling # <<>>
    /\ handling.reports < MaxProgress
    /\ posted' = Append(posted, [type |-> "progress", request |-> handling.request.id])
    /\ handling' = [handling EXCEPT !.reports = @ + 1]
    /\ UNCHANGED <<gridVars, flowVars, cityInputs, cityVars, roadVars, worldVars,
                   biomeVars, waterVars, lakeVars, maskVars, rngVars, simplifyVars, astarVars,
                   hookVars, inbox, requested, handled>>

\* generateWorld returns (self.postMessage({ type: 'result', world })) or
\* throws (catch: self.postMessage({ type: 'error', message })).
PostTerminal ==
    /\ handling # <<>>
    /\ \E type \in {"result", "error"} :
          posted' = Append(posted, [type |-> type, request |-> handling.request.id])
    /\ handled' = Append(handled, handling.request)
    /\ handling' = <<>>
    /\ UNCHANGED <<gridVars, flowVars, cityInputs, cityVars, roadVars, worldVars,
                   biomeVars, waterVars, lakeVars, maskVars, rngVars, simplifyVars, astarVars,
                   hookVars, inbox, requested>>

NextWorker ==
    \/ PostRequest
    \/ OnMessage
    \/ PostProgress
    \/ PostTerminal

SpecWorker == InitWorker /\ [][NextWorker]_vars

\* The positions in posted of the responses to the request id.
ResponsesTo(id) == {n \in 1 .. Len(posted) : posted[n].request = id}

\* C29: the worker message protocol.  The responses to a generate request
\* whose handler has finished are progress messages followed by one terminal
\* message, result or error, which is the last response to the request; the
\* request being handled has progress messages only; a cancel request has no
\* response; and the requests are handled one after the other in the order
\* posted, generate requests after cancel requests as before them.
WorkerProtocol ==
    LET terminal(n) == posted[n].type \in {"result", "error"}
        inFlight == IF handling = <<>> THEN <<>> ELSE <<handling.request>>
        begun == handled \o inFlight
    IN  /\ \A k \in 1 .. Len(begun) : begun[k].id = k
        /\ \A k \in 1 .. Len(inbox) : inbox[k].id = Len(begun) + k
        /\ \A k \in 1 .. Len(handled) :
               IF handled[k].type = "generate"
               THEN /\ Cardinality({n \in ResponsesTo(k) : terminal(n)}) = 1
                    /\ \A n \in ResponsesTo(k) :
                           terminal(n) <=> (\A m \in ResponsesTo(k) : m <= n)
               ELSE ResponsesTo(k) = {}
        /\ handling # <<>> =>
               /\ handling.request.type = "generate"
               /\ \A n \in ResponsesTo(handling.request.id) : ~terminal(n)
        /\ \A n \in 1 .. Len(posted) :
               /\ posted[n].type \in {"progress", "result", "error"}
               /\ posted[n].request \in 1 .. Len(begun)
        /\ \A m, n \in 1 .. Len(posted) : m < n => posted[m].request <= posted[n].request

\* A generate request has been answered by progress messages and a result;
\* the cancel request after it has been handled without a response, and the
\* generate request after that has been answered by an error.
WorkerProtocolWitness ==
    /\ Len(handled) = 3
    /\ handled[1].type = "generate"
    /\ handled[2].type = "cancel"
    /\ handled[3].type = "generate"
    /\ posted = <<[type |-> "progress", request |-> 1], [type |-> "progress", request |-> 1],
                  [type |-> "result", request |-> 1], [type |-> "error", request |-> 3]>>

\* --------------------------------------- useMapGenerator.ts: useMapGenerator
\* A settings value is its identity id (0 for the initial settings, the
\* number of the call that made it otherwise), whether generateWorld returns
\* for it (valid) and its performance.autoRegenerate (auto).  The world of
\* the state is the id of the settings it was generated from, -1 for null.
MaxHookCalls == 3       \* up to MaxHookCalls calls are made on the hook

hookRest ==
    <<gridVars, flowVars, cityInputs, cityVars, roadVars, worldVars, biomeVars, waterVars,
      lakeVars, maskVars, rngVars, simplifyVars, astarVars, workerVars>>

\* useMapGenerator(initialSettings = DEFAULT_SETTINGS), before its effects
InitHook ==
    /\ mounted = FALSE
    /\ hookSettings = [id |-> 0, valid |-> TRUE, auto |-> TRUE]
    /\ closure = hookSettings
    /\ hookState = [world |-> -1, isGenerating |-> FALSE, progress |-> "", error |-> ""]
    /\ debounce = <<>>
    /\ frames = <<>>
    /\ hookCalls = 0
    /\ everManual = FALSE
    /\ runs = <<>>
    /\ width = 0
    /\ height = 0
    /\ heightMap = <<>>
    /\ landMask = <<>>
    /\ FlowIdle
    /\ CitiesIdle
    /\ RoadsIdle
    /\ WorldIdle
    /\ BiomesIdle
    /\ WaterIdle
    /\ LakesIdle
    /\ MaskIdle
    /\ RngIdle
    /\ SimplifyIdle
    /\ AStarIdle
    /\ WorkerIdle

\* generate(settingsToUse): the state update and the requestAnimationFrame
generate(settingsToUse) ==
    /\ hookState' = [hookState EXCEPT !.isGenerating = TRUE, !.error = "",
                                      !.progress = "Starting..."]
    /\ frames' = Append(frames, settingsToUse)

\* Generate on first render
FirstRender ==
    /\ ~mounted
    /\ mounted' = TRUE
    /\ generate(hookSettings)
    /\ UNCHANGED <<hookRest, hookSettings, closure, debounce, hookCalls, everManual, runs>>

\* A render: the callbacks are made anew over the current settings.
Render ==
    /\ mounted
    /\ closure # hookSettings
    /\ closure' = hookSettings
    /\ UNCHANGED <<hookRest, mounted, hookSettings, hookState, debounce, frames, hookCalls,
                   everManual, runs>>

\* regenerate()
Regenerate_ ==
    /\ mounted
    /\ hookCalls < MaxHookCalls
    /\ hookCalls' = hookCalls + 1
    /\ generate(closure)
    /\ UNCHANGED <<hookRest, mounted, hookSettings, closure, debounce, everManual, runs>>

\* randomizeSeed(): the settings of the render with a new seed
RandomizeSeed ==
    /\ mounted
    /\ hookCalls < MaxHookCalls
    /\ hookCalls' = hookCalls + 1
    /\ LET newSettings == [closure EXCEPT !.id = hookCalls + 1]
       IN  /\ hookSettings' = newSettings
           /\ IF closure.auto
              THEN generate(newSettings)
              ELSE UNCHANGED <<hookState, frames>>
    /\ UNCHANGED <<hookRest, mounted, closure, debounce, everManual, runs>>

\* updateSettings(updates): any new settings value; with autoRegenerate the
\* pending timer is cleared and a timer for the new value is set.
UpdateSettings ==
    /\ mounted
    /\ hookCalls < MaxHookCalls
    /\ hookCalls' = hookCalls + 1
    /\ \E valid \in BOOLEAN, auto \in BOOLEAN :
          LET newSettings == [id |-> hookCalls + 1, valid |-> valid, auto |-> auto]
          IN  /\ hookSettings' = newSettings
              /\ debounce' = IF auto THEN <<newSettings>> ELSE debounce
              /\ everManual' = (everManual \/ ~auto)
    /\ UNCHANGED <<hookRest, mounted, closure, hookState, frames, runs>>

\* applyPreset(presetSettings): deepMerge(DEFAULT_SETTINGS, presetSettings)
ApplyPreset ==
    /\ mounted
    /\ hookCalls < MaxHookCalls
    /\ hookCalls' = hookCalls + 1
    /\ LET newSettings == [id |-> hookCalls + 1, valid |-> TRUE, auto |-> TRUE]
       IN  /\ hookSettings' = newSettings
           /\ generate(newSettings)
    /\ UNCHANGED <<hookRest, mounted, closure, debounce, everManual, runs>>

\* The debounce timer fires: generate(newSettings)
DebounceFires ==
    /\ debounce # <<>>
    /\ debounce' = <<>>
    /\ generate(debounce[1])
    /\ UNCHANGED <<hookRest, mounted, hookSettings, closure, hookCalls, everManual, runs>>

\* The callback of requestAnimationFrame: generateWorld returns and the
\* world is stored, or it throws and the error is stored.
AnimationFrame ==
    /\ frames # <<>>
    /\ frames' = Tail(frames)
    /\ hookState' =
           IF Head(frames).valid
           THEN [hookState EXCEPT !.world = Head(frames).id, !.isGenerating = FALSE,
                                  !.progress = "Complete!"]
           ELSE [hookState EXCEPT !.isGenerating = FALSE, !.error = "Generation failed"]
    /\ runs' = Append(runs, [settings |-> Head(frames), current |-> hookSettings,
                             before |-> hookState, after |-> hookState'])
    /\ UNCHANGED <<hookRest, mounted, hookSettings, closure, debounce, hookCalls, everManual>>

NextHook ==
    \/ FirstRender
    \/ Render
    \/ Regenerate_
    \/ RandomizeSeed
    \/ UpdateSettings
    \/ ApplyPreset
    \/ DebounceFires
    \/ AnimationFrame

SpecHook == InitHook /\ [][NextHook]_vars

\* C30 as claimed: latest settings win.  With autoRegenerate on in every
\* settings value, once no debounce timer and no animation-frame callback is
\* pending, isGenerating is false and the world of the state was generated
\* from the current settings (when generateWorld returns for them); no
\* generation runs for settings older than those of a generation that ran
\* before it; and a generation that throws sets error and leaves the world
\* as it was.
LatestSettingsWin ==
    /\ (mounted /\ ~everManual /\ debounce = <<>> /\ frames = <<>>) =>
           /\ ~hookState.isGenerating
           /\ hookSettings.valid => hookState.world = hookSettings.id
    /\ ~everManual =>
           \A m, n \in 1 .. Len(runs) : m < n => runs[m].settings.id <= runs[n].settings.id
    /\ \A n \in 1 .. Len(runs) :
           ~runs[n].settings.valid =>
               /\ runs[n].after.error # ""
               /\ runs[n].after.world = runs[n].before.world

====
